---- MODULE Spec2Model ----
(***************************************************************************)
(* Rules engine of the "Hive" client: hex-grid geometry, the board, move   *)
(* validation and move enumeration of GameState, and the snapshot that the *)
(* client keeps (the last Memento received).                               *)
(*                                                                         *)
(* Coordinates are tuples: axial <<x, y>>, cube <<x, y, z>>.  A Field is a *)
(* record [piece_stack, is_obstructed]; a Board is a function from the     *)
(* axial coordinates that exist to Fields; Option<T> is <<>> (None) or     *)
(* <<v>> (Some(v)); an SCResult<()> is "Ok" or the error message.          *)
(*                                                                         *)
(* Three specifications: Spec follows the snapshots of a game, SpecCalls   *)
(* makes single calls of board functions, of the parsers and of the        *)
(* queries of GameState, SpecClient runs the message loop of the client.   *)
(***************************************************************************)
EXTENDS Integers, Sequences, FiniteSets, Bags, TLC

\* game_state: the snapshot the client keeps.  call: the last call of a board
\* function made on its own, with its arguments and its result (None: no call).
VARIABLES game_state, call

vars == <<game_state, call>>

(***************************************************************************)
(* Bounds of the model.                                                    *)
(***************************************************************************)
\* Radius handed to filling_radius for every snapshot (the program uses 6).
Radius == 2
\* Largest number of pieces on the board of a snapshot.
MaxPieces == 3
\* Largest turn number of a snapshot.
MaxTurn == 6
\* The obstructed fields of a game lie within this radius of the centre.
ObstructedRadius == 1

\* Radius of the boards whose swarm connectivity is asked on its own.
SwarmRadius == 3
\* Largest number of cells holding a piece on such a board.
MaxSwarm == 4
\* Largest radius handed to filling_radius on its own.
\* Coordinates handed to the conversions and operators range over -MaxCoord .. MaxCoord.
MaxCoord == 3

\* An ASCII grid of seven cells carries at most MaxTokens tokens.
MaxTokens == 2

MaxRadius == 4

None == <<>>
Some(v) == <<v>>

(***************************************************************************)
(* Entities: player_color.rs, piece_type.rs, piece.rs, constants.rs        *)
(***************************************************************************)
PlayerColor == {"Red", "Blue"}

\* The colour itself instead of the other one.
opponent_same(color) == color

opponent(color) == IF color = "Red" THEN "Blue" ELSE "Red"

PieceType == {"Ant", "Bee", "Beetle", "Grasshopper", "Spider"}

Piece(owner, piece_type) == [owner |-> owner, piece_type |-> piece_type]

BOARD_RADIUS == 6

FIELD_COUNT == 91

INITIAL_PIECE_TYPES ==
    <<"Bee", "Spider", "Spider", "Spider", "Grasshopper", "Grasshopper",
      "Beetle", "Beetle", "Ant", "Ant", "Ant">>

(***************************************************************************)
(* Coordinate geometry: coords.rs                                          *)
(***************************************************************************)
signum(n) == IF n > 0 THEN 1 ELSE IF n < 0 THEN -1 ELSE 0

max(a, b) == IF a >= b THEN a ELSE b

min(a, b) == IF a <= b THEN a ELSE b

AxialAdd(a, b) == <<a[1] + b[1], a[2] + b[2]>>

coord_neighbors(c) ==
    { AxialAdd(c, <<0, 1>>), AxialAdd(c, <<1, 0>>), AxialAdd(c, <<1, -1>>),
      AxialAdd(c, <<0, -1>>), AxialAdd(c, <<-1, 0>>), AxialAdd(c, <<-1, 1>>) }

\* impl Add for CubeCoords: the z component is self.y + rhs.z
CubeAdd(a, b) == <<a[1] + b[1], a[2] + b[2], a[2] + b[3]>>

CubeSub(a, b) == <<a[1] - b[1], a[2] - b[2], a[3] - b[3]>>

\* impl AddAssign for CubeCoords
CubeAddAssign(a, b) == <<a[1] + b[1], a[2] + b[2], a[3] + b[3]>>

\* Integer division of i32: the quotient is truncated towards zero.
i32_div(a, b) ==
    IF (a >= 0) = (b > 0) THEN (IF a >= 0 THEN a \div b ELSE (0 - a) \div (0 - b))
    ELSE 0 - (IF a >= 0 THEN a \div (0 - b) ELSE (0 - a) \div b)

\* impl Mul<R> for CubeCoords
CubeMul(a, rhs) == <<a[1] * rhs, a[2] * rhs, a[3] * rhs>>

\* impl Div<R> for CubeCoords (a panic for rhs = 0)
CubeDiv(a, rhs) == <<i32_div(a[1], rhs), i32_div(a[2], rhs), i32_div(a[3], rhs)>>

\* impl SubAssign for CubeCoords
CubeSubAssign(a, b) == <<a[1] - b[1], a[2] - b[2], a[3] - b[3]>>

\* impl MulAssign<R> for CubeCoords: r is added to the z component
CubeMulAssign(a, r) == <<a[1] * r, a[2] * r, a[3] + r>>

AxialFromCube(c) == <<c[1], c[2]>>

CubeFromAxial(c) == <<c[1], c[2], -(c[1] + c[2])>>

DoubledFromAxial_unnegated(c) == <<c[1] - c[2], c[1] + c[2]>>

\* impl From<AxialCoords> for DoubledCoords
DoubledFromAxial(c) == <<c[1] - c[2], 0 - (c[1] + c[2])>>

\* impl From<DoubledCoords> for AxialCoords
AxialFromDoubled(c) == <<i32_div(c[1] - c[2], 2), i32_div(0 - (c[1] + c[2]), 2)>>

forms_line_with(lhs, rhs) ==
    LET lhs_cube == CubeFromAxial(lhs)
        rhs_cube == CubeFromAxial(rhs)
    IN  lhs_cube[1] = rhs_cube[1] \/ lhs_cube[2] = rhs_cube[2] \/ lhs_cube[3] = rhs_cube[3]

\* A LineIter is the record [current, destination, step].
line_iter(lhs, rhs) ==
    LET lhs_cube == CubeFromAxial(lhs)
        rhs_cube == CubeFromAxial(rhs)
        diff == CubeSub(rhs_cube, lhs_cube)
        step == <<signum(diff[1]), signum(diff[2]), signum(diff[3])>>
    IN  [current |-> CubeAdd(lhs_cube, step), destination |-> rhs_cube, step |-> step]

\* impl Iterator for LineIter, drained: the items next() yields until it returns
\* None (ended).  An iterator whose current has passed the x or y of its
\* destination never returns None: it goes on until the coordinates overflow
\* (a panic with overflow checks, otherwise a wrap-around), which is ended = FALSE.
RECURSIVE line_iter_items(_, _)
line_iter_items(it, yielded) ==
    IF it.current = it.destination THEN [items |-> yielded, ended |-> TRUE]
    ELSE IF \/ (it.current[1] - it.destination[1]) * it.step[1] > 0
            \/ (it.current[2] - it.destination[2]) * it.step[2] > 0
            \/ (it.step[1] = 0 /\ it.step[2] = 0)
    THEN [items |-> Append(yielded, it.current), ended |-> FALSE]
    ELSE line_iter_items([it EXCEPT !.current = CubeAddAssign(@, it.step)], Append(yielded, it.current))

is_adjacent_to(lhs, rhs) == rhs \in coord_neighbors(lhs)

(***************************************************************************)
(* Field: field.rs                                                         *)
(***************************************************************************)
DefaultField == [piece_stack |-> <<>>, is_obstructed |-> FALSE]

has_pieces(f) == f.piece_stack # <<>>

\* Option<Piece>: the top-most piece
piece(f) == IF f.piece_stack = <<>> THEN None ELSE Some(f.piece_stack[Len(f.piece_stack)])

owner(f) == IF piece(f) = None THEN None ELSE Some(piece(f)[1].owner)

is_owned_by(f, color) == owner(f) = Some(color)

is_occupied(f) == f.is_obstructed \/ has_pieces(f)

is_empty(f) == ~is_occupied(f)

push(f, p) == [f EXCEPT !.piece_stack = Append(@, p)]

pop(f) ==
    IF f.piece_stack = <<>> THEN f
    ELSE [f EXCEPT !.piece_stack = SubSeq(@, 1, Len(@) - 1)]

(***************************************************************************)
(* Board: board.rs.  The board is passed explicitly (b) so that the same   *)
(* operators serve the hypothetical board of the swarm check.              *)
(***************************************************************************)
\* The coordinates filling_radius inserts for a radius.
HexCoords(radius) ==
    LET inner == radius - 1
    IN  UNION { { <<x, y>> : x \in max(-(inner + y), -inner) .. min(inner - y, inner) } :
                y \in (-inner) .. inner }

\* filling_radius putting a default field on every cell of the hexagon.
filling_radius_overwriting(radius, fields) ==
    [c \in (DOMAIN fields) \cup HexCoords(radius) |->
        IF c \in HexCoords(radius) THEN DefaultField ELSE fields[c]]

\* fields is the seed map (a function from coordinates to Fields).
filling_radius(radius, fields) ==
    [c \in (DOMAIN fields) \cup HexCoords(radius) |->
        IF c \in DOMAIN fields THEN fields[c] ELSE DefaultField]

contains_coords(b, c) == c \in DOMAIN b

\* Option<&Field>
field(b, c) == IF c \in DOMAIN b THEN Some(b[c]) ELSE None

is_occupied_at(b, c) == IF field(b, c) = None THEN TRUE ELSE is_occupied(b[c])

fields_owned_by(b, color) == { c \in DOMAIN b : is_owned_by(b[c], color) }

empty_fields(b) == { c \in DOMAIN b : is_empty(b[c]) }

occupied_fields(b) == { c \in DOMAIN b : is_occupied(b[c]) }

board_has_pieces(b) == \E c \in DOMAIN b : has_pieces(b[c])

\* The six coordinates around c, on the board or not.
neighbors_unfiltered(b, c) == coord_neighbors(c)

neighbors(b, c) == { n \in coord_neighbors(c) : n \in DOMAIN b }

empty_neighbors(b, c) == { n \in neighbors(b, c) : is_empty(b[n]) }

\* swarm_boundary yields a cell once per occupied neighbour: a bag of coordinates
swarm_boundary(b) ==
    LET targets == UNION { empty_neighbors(b, c) : c \in occupied_fields(b) }
    IN  [t \in targets |-> Cardinality({ c \in occupied_fields(b) : t \in empty_neighbors(b, c) })]

\* The Bee taken as placed whatever the board holds.
has_placed_bee_assumed(b, color) == TRUE

has_placed_bee(b, color) ==
    LET bee == Piece(color, "Bee")
    IN  \E c \in DOMAIN b : \E i \in 1 .. Len(b[c].piece_stack) : b[c].piece_stack[i] = bee

is_next_to(b, color, c) == \E n \in neighbors(b, c) : is_owned_by(b[n], color)

is_next_to_piece(b, c) == \E n \in neighbors(b, c) : has_pieces(b[n])

\* .unique() makes every destination appear once
possible_set_move_destinations(b, color) ==
    { c \in UNION { empty_neighbors(b, o) : o \in fields_owned_by(b, color) } :
        ~is_next_to(b, opponent(color), c) }

\* The items of possible_set_move_destinations without .unique(): a destination
\* is yielded once per own field it is next to.
possible_set_move_destinations_repeated(b, color) ==
    LET owned == fields_owned_by(b, color)
        flat == [c \in UNION { empty_neighbors(b, o) : o \in owned } |->
                    Cardinality({ o \in owned : c \in empty_neighbors(b, o) })]
    IN  [c \in { c \in DOMAIN flat : ~is_next_to(b, opponent(color), c) } |-> flat[c]]

\* The items the iterator of possible_set_move_destinations yields, as a bag:
\* flat_map over the own fields, unique, filter_map.
possible_set_move_destinations_items(b, color) ==
    LET owned == fields_owned_by(b, color)
        flat == [c \in UNION { empty_neighbors(b, o) : o \in owned } |->
                    Cardinality({ o \in owned : c \in empty_neighbors(b, o) })]
        unique == [c \in DOMAIN flat |-> 1]
    IN  [c \in { c \in DOMAIN unique : ~is_next_to(b, opponent(color), c) } |-> unique[c]]

\* What dfs_swarm leaves in unvisited when started at coords; the for loop over
\* the neighbours is dfs_swarm_neighbors.
RECURSIVE dfs_swarm(_, _, _), dfs_swarm_neighbors(_, _, _)
dfs_swarm(b, coords, unvisited) ==
    IF field(b, coords) # None /\ has_pieces(b[coords])
    THEN dfs_swarm_neighbors(b, neighbors(b, coords), unvisited \ {coords})
    ELSE unvisited

\* The loop over the neighbours without the recursive call.
dfs_swarm_neighbors_shallow(b, todo, unvisited) == unvisited \ todo

dfs_swarm_neighbors(b, todo, unvisited) ==
    IF todo = {} THEN unvisited
    ELSE LET neighbor == CHOOSE n \in todo : TRUE
         IN  dfs_swarm_neighbors(b, todo \ {neighbor},
                 IF neighbor \in unvisited THEN dfs_swarm(b, neighbor, unvisited)
                 ELSE unvisited)

is_swarm_connected(b) ==
    LET unvisited == { c \in DOMAIN b : has_pieces(b[c]) }
    IN  IF unvisited # {}
        THEN dfs_swarm(b, CHOOSE start \in unvisited : TRUE, unvisited) = {}
        ELSE TRUE

shared_neighbors(b, a1, b1, exception) ==
    { c \in neighbors(b, a1) \cap neighbors(b, b1) :
        Len(b[c].piece_stack) # 1 \/ exception = Some(c) }

can_move_between_except(b, exception, a1, b1) ==
    LET shared == shared_neighbors(b, a1, b1, exception)
    IN  /\ (Cardinality(shared) = 1 \/ \E c \in shared : is_empty(b[c]))
        /\ \E c \in shared : has_pieces(b[c])

can_move_between(b, a1, b1) == can_move_between_except(b, None, a1, b1)

accessible_neighbors_except(b, exception, coords) ==
    { c \in neighbors(b, coords) :
        is_empty(b[c]) /\ can_move_between_except(b, exception, coords, c) }

Range(seq) == { seq[i] : i \in DOMAIN seq }

\* The elements of a set in the order an iterator yields them.
RECURSIVE SetToSeq(_)
SetToSeq(S) ==
    IF S = {} THEN <<>>
    ELSE LET e == CHOOSE e \in S : TRUE IN <<e>> \o SetToSeq(S \ {e})

\* The while loop of bfs_accessible with search condition c == destination.
RECURSIVE bfs_accessible_loop(_, _, _, _, _)
bfs_accessible_loop(b, start, destination, queue, visited) ==
    IF queue = <<>> THEN FALSE
    ELSE LET coords == Head(queue)
             visited1 == visited \cup {coords}
         IN  IF field(b, coords) # None
             THEN IF coords = destination THEN TRUE
                  ELSE bfs_accessible_loop(b, start, destination,
                           Tail(queue) \o SetToSeq({ c \in accessible_neighbors_except(b, Some(start), coords) :
                                                       c \notin visited1 }),
                           visited1)
             ELSE bfs_accessible_loop(b, start, destination, Tail(queue), visited1)

bfs_accessible(b, start, destination) ==
    bfs_accessible_loop(b, start, destination, <<start>>, {})

\* The while loop of bfs_reachable_in_3_steps over the queue of paths.
RECURSIVE bfs_reachable_loop(_, _, _, _)
bfs_reachable_loop(b, start, destination, paths_queue) ==
    IF paths_queue = <<>> THEN FALSE
    ELSE LET path == Head(paths_queue)
             nbrs == { c \in accessible_neighbors_except(b, Some(start), path[Len(path)]) :
                         c \notin Range(path) }
             next_paths == SetToSeq({ Append(path, c) : c \in nbrs })
         IN  IF Len(path) < 3
             THEN bfs_reachable_loop(b, start, destination, Tail(paths_queue) \o next_paths)
             ELSE IF destination \in nbrs THEN TRUE
                  ELSE bfs_reachable_loop(b, start, destination, Tail(paths_queue))

bfs_reachable_in_3_steps(b, start, destination) ==
    bfs_reachable_loop(b, start, destination, <<(<<start>>)>>)

connected_by_boundary_path(b, start, destination) == bfs_accessible(b, start, destination)

(***************************************************************************)
(* Parsing of ASCII hex grids: board.rs, field.rs, player_color.rs,        *)
(* piece_type.rs.  A string is the sequence of its characters; a fallible  *)
(* result is a record with the field ok.                                   *)
(***************************************************************************)
Ok(v) == [ok |-> TRUE, value |-> v]

Err(error) == [ok |-> FALSE, error |-> error]

\* SCError: the variant and what it carries
Custom(message) == [variant |-> "Custom", message |-> message]

ParseInt(error_kind) == [variant |-> "ParseInt", message |-> error_kind]

ParseBool == [variant |-> "ParseBool", message |-> "provided string was not true or false"]

\* char::to_uppercase
to_uppercase(c) ==
    CASE c = "a" -> "A" [] c = "b" -> "B" [] c = "g" -> "G" [] c = "r" -> "R"
      [] c = "s" -> "S" [] c = "t" -> "T" [] c = "x" -> "X" [] OTHER -> c

\* impl TryFrom<char> for PlayerColor
PlayerColor_try_from(c) ==
    CASE to_uppercase(c) = "R" -> Ok("Red")
      [] to_uppercase(c) = "B" -> Ok("Blue")
      [] OTHER -> Err(Custom("Did not recognize player color"))

\* impl TryFrom<char> for PieceType
PieceType_try_from(c) ==
    CASE to_uppercase(c) = "A" -> Ok("Ant")
      [] to_uppercase(c) = "B" -> Ok("Bee")
      [] to_uppercase(c) = "T" -> Ok("Beetle")
      [] to_uppercase(c) = "G" -> Ok("Grasshopper")
      [] to_uppercase(c) = "S" -> Ok("Spider")
      [] OTHER -> Err(Custom("Did not recognize piece type"))

\* FIELD_SYNTAX: ^([A-Z])([A-Z])$
FIELD_SYNTAX_captures(raw) ==
    LET UpperCaseLetters ==
            { "A", "B", "C", "D", "E", "F", "G", "H", "I", "J", "K", "L", "M",
              "N", "O", "P", "Q", "R", "S", "T", "U", "V", "W", "X", "Y", "Z" }
    IN
    IF Len(raw) = 2 /\ raw[1] \in UpperCaseLetters /\ raw[2] \in UpperCaseLetters
    THEN Some(<<raw, raw[1], raw[2]>>) ELSE None

Field_from_str_any_case(raw) ==
    IF raw = <<>> THEN Ok(DefaultField)
    ELSE IF Len(raw) # 2 THEN Err(Custom("does not match field syntax"))
    ELSE LET field_owner == PlayerColor_try_from(raw[1])
             piece_type == PieceType_try_from(raw[2])
         IN  IF ~field_owner.ok THEN field_owner
             ELSE IF ~piece_type.ok THEN piece_type
             ELSE Ok([piece_stack |-> <<Piece(field_owner.value, piece_type.value)>>,
                      is_obstructed |-> FALSE])

\* impl FromStr for Field
Field_from_str(raw) ==
    IF raw = <<>> THEN Ok(DefaultField)
    ELSE LET groups == FIELD_SYNTAX_captures(raw)
         IN  IF groups = None THEN Err(Custom("does not match field syntax"))
             ELSE LET field_owner == PlayerColor_try_from(groups[1][2])
                      piece_type == PieceType_try_from(groups[1][3])
                  IN  IF ~field_owner.ok THEN field_owner
                      ELSE IF ~piece_type.ok THEN piece_type
                      ELSE Ok([piece_stack |-> <<Piece(field_owner.value, piece_type.value)>>,
                               is_obstructed |-> FALSE])

\* str::trim, the white space of the grids being the blank
RECURSIVE trim(_)
trim(s) ==
    IF s = <<>> THEN s
    ELSE IF Head(s) = " " THEN trim(Tail(s))
    ELSE IF s[Len(s)] = " " THEN trim(SubSeq(s, 1, Len(s) - 1))
    ELSE s

\* str::split: the pieces of s between the occurrences of the separator
RECURSIVE split(_, _)
split(s, separator) ==
    IF \A i \in 1 .. Len(s) : s[i] # separator THEN <<s>>
    ELSE LET i == CHOOSE i \in 1 .. Len(s) : s[i] = separator /\ \A j \in 1 .. (i - 1) : s[j] # separator
         IN  <<SubSeq(s, 1, i - 1)>> \o split(SubSeq(s, i + 1, Len(s)), separator)

\* str::lines: the pieces between line feeds, without a final empty line
lines(s) ==
    LET pieces == split(s, "\n")
    IN  IF pieces[Len(pieces)] = <<>> THEN SubSeq(pieces, 1, Len(pieces) - 1) ELSE pieces

\* Iterator::skip_while(|l| l.is_empty())
RECURSIVE skip_while_empty(_)
skip_while_empty(ls) == IF ls # <<>> /\ Head(ls) = <<>> THEN skip_while_empty(Tail(ls)) ELSE ls

\* Iterator::skip(n)
skip(ls, n) == SubSeq(ls, n + 1, Len(ls))

\* Iterator::step_by(n)
step_by(ls, n) == [k \in 1 .. ((Len(ls) + n - 1) \div n) |-> ls[(k - 1) * n + 1]]

RECURSIVE flatten(_)
flatten(ss) == IF ss = <<>> THEN <<>> ELSE Head(ss) \o flatten(Tail(ss))

DoubledSub(a, b) == <<a[1] - b[1], a[2] - b[2]>>

DoubledDiv(a, rhs) == <<i32_div(a[1], rhs), i32_div(a[2], rhs)>>

\* The greatest of the numbers of a set, or the default for the empty set.
max_or(S, default) == IF S = {} THEN default ELSE CHOOSE m \in S : \A n \in S : n <= m

\* The doubled position and the field of every cell, in the order read.
double_positioned(grid) ==
    LET all_lines == lines(grid)
        rows == step_by(skip(skip_while_empty([k \in 1 .. Len(all_lines) |-> trim(all_lines[k])]), 2), 3)
        cells(y) ==
            LET IsNonEmpty(frag) == frag # <<>>
                frags == SelectSeq(split(rows[y + 1], "|"), IsNonEmpty)
            IN  [k \in 1 .. Len(frags) |->
                    LET x == k - 1
                        parsed == Field_from_str(trim(frags[k]))
                    IN  <<<<(2 * x) + ((y + 1) % 2), y>>,
                          IF parsed.ok THEN parsed.value ELSE DefaultField>>]
    IN  flatten([k \in 1 .. Len(rows) |-> cells(k - 1)])

\* Board::from_ascii_hex_grid; of two cells at one coordinate the later is kept.
from_ascii_hex_grid(grid) ==
    LET positioned == double_positioned(grid)
        center == DoubledDiv(<<max_or({ positioned[k][1][1] : k \in 1 .. Len(positioned) }, 0),
                               max_or({ positioned[k][1][2] : k \in 1 .. Len(positioned) }, 0)>>, 2)
        axial(k) == AxialFromDoubled(DoubledSub(positioned[k][1], center))
    IN  [c \in { axial(k) : k \in 1 .. Len(positioned) } |->
            LET last == CHOOSE k \in 1 .. Len(positioned) :
                            axial(k) = c /\ \A j \in (k + 1) .. Len(positioned) : axial(j) # c
            IN  positioned[last][2]]

(***************************************************************************)
(* Deserialization: xml_node.rs and the FromXmlNode implementations.  An   *)
(* XmlNode is the record [name, attributes, childs]; attributes is a       *)
(* function from keys to values, a number being written as the sequence of *)
(* its characters.                                                         *)
(***************************************************************************)
\* XmlNode::attribute
attribute(node, key) ==
    IF key \in DOMAIN node.attributes THEN Ok(node.attributes[key])
    ELSE Err(Custom("No attribute with key found"))

\* XmlNode::childs_by_name
childs_by_name(node, name) ==
    LET matching == { k \in 1 .. Len(node.childs) : node.childs[k].name = name }
        RECURSIVE pick(_)
        pick(k) ==
            IF k > Len(node.childs) THEN <<>>
            ELSE (IF k \in matching THEN <<node.childs[k]>> ELSE <<>>) \o pick(k + 1)
    IN  pick(1)

\* XmlNode::child_by_name
child_by_name(node, name) ==
    IF childs_by_name(node, name) = <<>> THEN Err(Custom("No child found"))
    ELSE Ok(childs_by_name(node, name)[1])

Digits == [k \in {"0", "1", "2", "3", "4", "5", "6", "7", "8", "9"} |->
             CASE k = "0" -> 0 [] k = "1" -> 1 [] k = "2" -> 2 [] k = "3" -> 3 [] k = "4" -> 4
               [] k = "5" -> 5 [] k = "6" -> 6 [] k = "7" -> 7 [] k = "8" -> 8 [] k = "9" -> 9]

RECURSIVE digits_value(_)
digits_value(s) == IF s = <<>> THEN 0 ELSE 10 * digits_value(SubSeq(s, 1, Len(s) - 1)) + Digits[s[Len(s)]]

RECURSIVE strip_zeros(_)
strip_zeros(s) == IF Len(s) > 1 /\ s[1] = "0" THEN strip_zeros(Tail(s)) ELSE s

\* Of two digit sequences without leading zeros, a is the greater number.
exceeds(a, b) ==
    \/ Len(a) > Len(b)
    \/ /\ Len(a) = Len(b)
       /\ \E k \in 1 .. Len(a) :
            /\ Digits[a[k]] > Digits[b[k]]
            /\ \A j \in 1 .. (k - 1) : a[j] = b[j]

parse_int_defaulting(s, signed, lowest, highest) ==
    IF s = <<>> \/ \E k \in 1 .. Len(s) : s[k] \notin DOMAIN Digits THEN Ok(0)
    ELSE IF exceeds(strip_zeros(s), highest) THEN Ok(0)
    ELSE Ok(digits_value(s))

\* str::parse for the integer types: an optional sign (no minus for an unsigned
\* type), then one decimal digit or more; lowest and highest are the digits of
\* the magnitudes of the least and the greatest value of the type.
parse_int(s, signed, lowest, highest) ==
    IF s = <<>> THEN Err(ParseInt("Empty"))
    ELSE LET has_sign == s[1] = "+" \/ (signed /\ s[1] = "-")
             digits == IF has_sign THEN Tail(s) ELSE s
         IN  IF digits = <<>> \/ \E k \in 1 .. Len(digits) : digits[k] \notin DOMAIN Digits
             THEN Err(ParseInt("InvalidDigit"))
             ELSE IF s[1] # "-" /\ exceeds(strip_zeros(digits), highest) THEN Err(ParseInt("PosOverflow"))
             ELSE IF s[1] = "-" /\ exceeds(strip_zeros(digits), lowest) THEN Err(ParseInt("NegOverflow"))
             ELSE Ok(IF s[1] = "-" THEN 0 - digits_value(digits) ELSE digits_value(digits))

\* u32: 0 .. 4294967295
parse_u32(s) ==
    parse_int(s, FALSE, <<"0">>, <<"4", "2", "9", "4", "9", "6", "7", "2", "9", "5">>)

\* i32: -2147483648 .. 2147483647
parse_i32(s) ==
    parse_int(s, TRUE, <<"2", "1", "4", "7", "4", "8", "3", "6", "4", "8">>,
              <<"2", "1", "4", "7", "4", "8", "3", "6", "4", "7">>)

\* str::parse::<bool>
parse_bool(s) ==
    CASE s = "true" -> Ok(TRUE) [] s = "false" -> Ok(FALSE) [] OTHER -> Err(ParseBool)

\* str::to_uppercase on the spellings of the literals
str_to_uppercase(s) ==
    CASE s \in {"red", "Red"} -> "RED"
      [] s \in {"blue", "Blue"} -> "BLUE"
      [] s \in {"ant", "Ant"} -> "ANT"
      [] s \in {"bee", "Bee"} -> "BEE"
      [] s \in {"beetle", "Beetle"} -> "BEETLE"
      [] s \in {"grasshopper", "Grasshopper"} -> "GRASSHOPPER"
      [] s \in {"spider", "Spider"} -> "SPIDER"
      [] s \in {"green", "Green"} -> "GREEN"
      [] s \in {"wasp", "Wasp"} -> "WASP"
      [] OTHER -> s

\* impl FromStr for PlayerColor
PlayerColor_from_str(raw) ==
    CASE str_to_uppercase(raw) = "RED" -> Ok("Red")
      [] str_to_uppercase(raw) = "BLUE" -> Ok("Blue")
      [] OTHER -> Err(Custom("Did not recognize player color"))

\* impl FromStr for PieceType
PieceType_from_str(raw) ==
    CASE str_to_uppercase(raw) = "ANT" -> Ok("Ant")
      [] str_to_uppercase(raw) = "BEE" -> Ok("Bee")
      [] str_to_uppercase(raw) = "BEETLE" -> Ok("Beetle")
      [] str_to_uppercase(raw) = "GRASSHOPPER" -> Ok("Grasshopper")
      [] str_to_uppercase(raw) = "SPIDER" -> Ok("Spider")
      [] OTHER -> Err(Custom("Did not recognize piece type"))

\* node.attribute(key)?.parse()? with the FromStr of the type parsed into
attribute_parsed(node, key, type) ==
    LET raw == attribute(node, key)
    IN  IF ~raw.ok THEN raw
        ELSE CASE type = "u32" -> parse_u32(raw.value)
               [] type = "i32" -> parse_i32(raw.value)
               [] type = "bool" -> parse_bool(raw.value)
               [] type = "PlayerColor" -> PlayerColor_from_str(raw.value)
               [] type = "PieceType" -> PieceType_from_str(raw.value)

\* Iterator::collect into a Result: the values, or the first error
collect(results) ==
    CHOOSE collected \in
        { IF \A k \in 1 .. Len(rs) : rs[k].ok THEN Ok([k \in 1 .. Len(rs) |-> rs[k].value])
          ELSE rs[CHOOSE k \in 1 .. Len(rs) : ~rs[k].ok /\ \A j \in 1 .. (k - 1) : rs[j].ok] :
            rs \in {results} } : TRUE

\* impl FromXmlNode for Piece
Piece_from_node(node) ==
    LET piece_owner == attribute_parsed(node, "owner", "PlayerColor")
        piece_type == attribute_parsed(node, "type", "PieceType")
    IN  IF ~piece_owner.ok THEN piece_owner
        ELSE IF ~piece_type.ok THEN piece_type
        ELSE Ok(Piece(piece_owner.value, piece_type.value))

\* impl FromXmlNode for Field
Field_from_node(node) ==
    LET pieces == childs_by_name(node, "piece")
        piece_stack == collect([k \in 1 .. Len(pieces) |-> Piece_from_node(pieces[k])])
        is_obstructed == attribute_parsed(node, "isObstructed", "bool")
    IN  IF ~piece_stack.ok THEN piece_stack
        ELSE IF ~is_obstructed.ok THEN is_obstructed
        ELSE Ok([piece_stack |-> piece_stack.value, is_obstructed |-> is_obstructed.value])

\* impl FromXmlNode for Player
Player_from_node(node) ==
    LET color == attribute_parsed(node, "color", "PlayerColor")
        display_name == attribute(node, "displayName")
    IN  IF ~color.ok THEN color
        ELSE IF ~display_name.ok THEN display_name
        ELSE Ok([color |-> color.value, display_name |-> display_name.value])

\* The closure of Board::from_node: the coordinates and the field of a <field>
positioned_field_from_node(f) ==
    LET x == attribute_parsed(f, "x", "i32")
        y == attribute_parsed(f, "y", "i32")
        z == attribute_parsed(f, "z", "i32")
        parsed == Field_from_node(f)
    IN  IF ~x.ok THEN x
        ELSE IF ~y.ok THEN y
        ELSE IF ~z.ok THEN z
        ELSE IF ~parsed.ok THEN parsed
        ELSE Ok(<<AxialFromCube(<<x.value, y.value, z.value>>), parsed.value>>)

\* impl FromXmlNode for Board; of two fields at one coordinate the later is kept.
Board_from_node(node) ==
    LET board_of(entries) ==
            IF ~entries.ok THEN entries
            ELSE LET e == entries.value
                 IN  Ok(filling_radius(6,
                        [c \in { e[k][1] : k \in 1 .. Len(e) } |->
                            e[CHOOSE k \in 1 .. Len(e) : e[k][1] = c /\ \A j \in (k + 1) .. Len(e) : e[j][1] # c][2]]))
    IN  CHOOSE parsed \in
            { board_of(collect([k \in 1 .. Len(field_nodes) |-> positioned_field_from_node(field_nodes[k])])) :
                field_nodes \in { flatten([k \in 1 .. Len(rows) |-> childs_by_name(rows[k], "field")]) :
                                    rows \in {childs_by_name(node, "fields")} } } : TRUE

undeployed_from_node(node) ==
    LET pieces == childs_by_name(node, "piece")
    IN  collect([k \in 1 .. Len(pieces) |-> Piece_from_node(pieces[k])])

\* T::from_node(node.child_by_name(name)?) with the FromXmlNode of the type read
child_parsed(node, name, type) ==
    CHOOSE parsed \in
        { IF ~child.ok THEN child
          ELSE CASE type = "Player" -> Player_from_node(child.value)
                 [] type = "Board" -> Board_from_node(child.value)
                 [] type = "Vec<Piece>" -> undeployed_from_node(child.value) :
            child \in {child_by_name(node, name)} } : TRUE

\* impl FromXmlNode for GameState: the first failure, in the order of the fields,
\* is the result.
GameState_from_node(node) ==
    LET state_of(parts) ==
            IF \E k \in 1 .. 8 : ~parts[k].ok
            THEN parts[CHOOSE k \in 1 .. 8 : ~parts[k].ok /\ \A j \in 1 .. (k - 1) : parts[j].ok]
            ELSE Ok([turn |-> parts[1].value,
                     start_player_color |-> parts[2].value,
                     current_player_color |-> parts[3].value,
                     red_player |-> parts[4].value,
                     blue_player |-> parts[5].value,
                     board |-> parts[6].value,
                     undeployed_red_pieces |-> parts[7].value,
                     undeployed_blue_pieces |-> parts[8].value])
        parts == << attribute_parsed(node, "turn", "u32"),
                    attribute_parsed(node, "startPlayerColor", "PlayerColor"),
                    attribute_parsed(node, "currentPlayerColor", "PlayerColor"),
                    child_parsed(node, "red", "Player"),
                    child_parsed(node, "blue", "Player"),
                    child_parsed(node, "board", "Board"),
                    child_parsed(node, "undeployedRedPieces", "Vec<Piece>"),
                    child_parsed(node, "undeployedBluePieces", "Vec<Piece>") >>
    IN  CHOOSE parsed \in { state_of(p) : p \in {parts} } : TRUE

(***************************************************************************)
(* Move: move.rs.  A move carries the coordinates it is validated by.      *)
(***************************************************************************)
SetMove(p, destination) == [kind |-> "SetMove", piece |-> p, destination |-> destination]

DragMove(start, destination) == [kind |-> "DragMove", start |-> start, destination |-> destination]

(***************************************************************************)
(* GameState: game_state.rs.  gs is the record [turn, start_player_color,  *)
(* current_player_color, board, undeployed_red_pieces,                     *)
(* undeployed_blue_pieces].                                                *)
(***************************************************************************)
undeployed_pieces(gs, color) ==
    IF color = "Red" THEN gs.undeployed_red_pieces ELSE gs.undeployed_blue_pieces

\* The turn taken for the round.
round_is_turn(gs) == gs.turn

round(gs) == gs.turn \div 2

validate_adjacent(gs, start, destination) ==
    IF is_adjacent_to(start, destination) THEN "Ok"
    ELSE "Coords are not adjacent to each other"

validate_ant_move(gs, start, destination) ==
    IF connected_by_boundary_path(gs.board, start, destination) THEN "Ok"
    ELSE "Could not find path for ant"

validate_bee_move(gs, start, destination) ==
    IF validate_adjacent(gs, start, destination) # "Ok"
    THEN validate_adjacent(gs, start, destination)
    ELSE IF can_move_between(gs.board, start, destination) THEN "Ok"
         ELSE "Cannot move between start and destination"

validate_beetle_move(gs, start, destination) ==
    IF validate_adjacent(gs, start, destination) # "Ok"
    THEN validate_adjacent(gs, start, destination)
    ELSE IF \/ \E c \in shared_neighbors(gs.board, start, destination, None) : has_pieces(gs.board[c])
            \/ (field(gs.board, destination) # None /\ has_pieces(gs.board[destination]))
         THEN "Ok"
         ELSE "Beetle has to move along swarm"

\* LineIter drained by any(|c| field(c) is an empty field): "Found" when a cell
\* satisfies it, "Exhausted" when next() returns None (current == destination),
\* "Overrun" when the iterator has left the board without reaching its
\* destination: it then never yields a board cell again before the coordinates
\* overflow (a panic with overflow checks, otherwise a wrap-around).
RECURSIVE line_any_empty(_, _)
line_any_empty(b, it) ==
    IF it.current = it.destination THEN "Exhausted"
    ELSE LET pos == AxialFromCube(it.current)
         IN  IF field(b, pos) = None THEN "Overrun"
             ELSE IF is_empty(b[pos]) THEN "Found"
             ELSE line_any_empty(b, [it EXCEPT !.current = CubeAddAssign(@, it.step)])

\* The grasshopper rule without the test for a neighbouring destination.
validate_grasshopper_move_to_neighbor(gs, start, destination) ==
    IF ~forms_line_with(start, destination)
    THEN "Grasshopper can only move along straight lines"
    ELSE LET scan == line_any_empty(gs.board, line_iter(start, destination))
         IN  IF scan = "Found" THEN "Grasshopper cannot move over empty fields"
             ELSE IF scan = "Exhausted" THEN "Ok"
             ELSE "Overrun"

validate_grasshopper_move(gs, start, destination) ==
    IF ~forms_line_with(start, destination)
    THEN "Grasshopper can only move along straight lines"
    ELSE IF is_adjacent_to(start, destination)
    THEN "Grasshopper must not move to a neighbor"
    ELSE LET scan == line_any_empty(gs.board, line_iter(start, destination))
         IN  IF scan = "Found" THEN "Grasshopper cannot move over empty fields"
             ELSE IF scan = "Exhausted" THEN "Ok"
             ELSE "Overrun"

validate_spider_move(gs, start, destination) ==
    IF bfs_reachable_in_3_steps(gs.board, start, destination) THEN "Ok"
    ELSE "No 3-step path found for Spider move"

\* game_state.rs line 85
any_field_has_pieces(b) == \E c \in DOMAIN b : has_pieces(b[c])

validate_set_move(gs, color, p, destination) ==
    IF ~contains_coords(gs.board, destination)
    THEN "Move destination is out of bounds"
    ELSE IF gs.board[destination].is_obstructed
    THEN "Move destination is obstructed"
    ELSE IF ~any_field_has_pieces(gs.board)
    THEN "Ok"
    ELSE IF Cardinality(fields_owned_by(gs.board, color)) = 0
    THEN IF is_next_to(gs.board, opponent(color), destination) THEN "Ok"
         ELSE "Piece has to be placed next to an opponent's piece"
    ELSE IF round(gs) = 3 /\ ~has_placed_bee(gs.board, color) /\ p.piece_type # "Bee"
    THEN "Bee has to be placed in the fourth round or earlier"
    ELSE IF \A i \in DOMAIN undeployed_pieces(gs, color) : undeployed_pieces(gs, color)[i] # p
    THEN "Piece is not undeployed"
    ELSE IF ~\E n \in neighbors(gs.board, destination) : is_owned_by(gs.board[n], color)
    THEN "Piece is not placed next to an own piece"
    ELSE IF \E n \in neighbors(gs.board, destination) : is_owned_by(gs.board[n], color)
    THEN "Piece must not be placed next to an opponent's piece"
    ELSE "Ok"

\* The match on the piece type of validate_drag_move.
validate_piece_move(gs, dragged_piece, start, destination) ==
    CASE dragged_piece.piece_type = "Ant" -> validate_ant_move(gs, start, destination)
      [] dragged_piece.piece_type = "Bee" -> validate_bee_move(gs, start, destination)
      [] dragged_piece.piece_type = "Beetle" -> validate_beetle_move(gs, start, destination)
      [] dragged_piece.piece_type = "Grasshopper" -> validate_grasshopper_move(gs, start, destination)
      [] dragged_piece.piece_type = "Spider" -> validate_spider_move(gs, start, destination)

\* The swarm check on the board as it is: the piece is not popped from the clone.
without_piece_unpopped(b, start) == b

\* The board with the top piece of start popped (the clone of validate_drag_move).
without_piece(b, start) == [b EXCEPT ![start] = pop(@)]

validate_drag_move(gs, color, start, destination) ==
    IF ~has_placed_bee(gs.board, color)
    THEN "Bee has to be placed before committing a drag move"
    ELSE IF ~contains_coords(gs.board, start)
    THEN "Move start is out of bounds"
    ELSE IF ~contains_coords(gs.board, destination)
    THEN "Move destination is out of bounds"
    ELSE IF piece(gs.board[start]) # None
    THEN LET dragged_piece == piece(gs.board[start])[1]
         IN  IF dragged_piece.owner # color
             THEN "Cannot move opponent's piece"
             ELSE IF start = destination
             THEN "Cannot move when start == destination"
             ELSE IF piece(gs.board[destination]) # None
                     /\ piece(gs.board[destination])[1].piece_type = "Beetle"
             THEN "Only beetles can climb other pieces"
             ELSE IF ~is_swarm_connected(without_piece(gs.board, start))
             THEN "Drag move would disconnect the swarm"
             ELSE validate_piece_move(gs, dragged_piece, start, destination)
    ELSE "No piece to move"

\* The boards held after the swarm check of validate_drag_move, both popped: the
\* pop acts on the board of the state itself.
swarm_check_boards_shared(b, start) ==
    [self_board |-> without_piece(b, start), without_piece |-> without_piece(b, start)]

\* The boards held after the swarm check of validate_drag_move: the board of
\* the state, borrowed immutably, and the local without_piece, its clone popped.
swarm_check_boards(b, start) ==
    [self_board |-> b, without_piece |-> without_piece(b, start)]

\* validate_drag_move gets as far as its swarm check.
reaches_swarm_check(gs, color, start, destination) ==
    validate_drag_move(gs, color, start, destination) \notin
        { "Bee has to be placed before committing a drag move", "Move start is out of bounds",
          "Move destination is out of bounds", "No piece to move", "Cannot move opponent's piece",
          "Cannot move when start == destination", "Only beetles can climb other pieces" }

\* The state behind &self when validate_move has returned.
self_after_validate_move(gs, color, game_move) ==
    IF game_move.kind = "DragMove" /\ reaches_swarm_check(gs, color, game_move.start, game_move.destination)
    THEN [gs EXCEPT !.board = swarm_check_boards(gs.board, game_move.start).self_board]
    ELSE gs

validate_move(gs, color, game_move) ==
    IF game_move.kind = "SetMove"
    THEN validate_set_move(gs, color, game_move.piece, game_move.destination)
    ELSE validate_drag_move(gs, color, game_move.start, game_move.destination)

\* How often e occurs in the sequence seq.
Count(seq, e) == Cardinality({ i \in DOMAIN seq : seq[i] = e })

\* The Vec destination_coords of possible_set_moves, as a bag of coordinates.
set_move_destination_coords(gs, color) ==
    LET b == gs.board
        opp == opponent(color)
    IN  IF Len(undeployed_pieces(gs, color)) = Len(INITIAL_PIECE_TYPES)
        THEN IF Len(undeployed_pieces(gs, opp)) = Len(INITIAL_PIECE_TYPES)
             THEN [c \in empty_fields(b) |-> 1]
             ELSE [c \in UNION { empty_neighbors(b, o) : o \in fields_owned_by(b, opp) } |->
                      Cardinality({ o \in fields_owned_by(b, opp) : c \in empty_neighbors(b, o) })]
        ELSE [c \in possible_set_move_destinations(b, color) |-> 1]

\* possible_set_moves forcing the Bee one turn later.
possible_set_moves_after_turn_6(gs, color) ==
    LET undeployed == undeployed_pieces(gs, color)
        destinations == set_move_destination_coords(gs, color)
    IN  IF ~has_placed_bee(gs.board, color) /\ gs.turn > 6
        THEN [m \in { SetMove(Piece(color, "Bee"), d) : d \in DOMAIN destinations } |->
                 destinations[m.destination]]
        ELSE [m \in { SetMove(p, d) : p \in Range(undeployed), d \in DOMAIN destinations } |->
                 destinations[m.destination] * Count(undeployed, m.piece)]

\* The Vec<Move> of possible_set_moves as a bag: a move occurs once per
\* occurrence of its destination and of its piece.
possible_set_moves(gs, color) ==
    LET undeployed == undeployed_pieces(gs, color)
        destinations == set_move_destination_coords(gs, color)
    IN  IF ~has_placed_bee(gs.board, color) /\ gs.turn > 5
        THEN [m \in { SetMove(Piece(color, "Bee"), d) : d \in DOMAIN destinations } |->
                 destinations[m.destination]]
        ELSE [m \in { SetMove(p, d) : p \in Range(undeployed), d \in DOMAIN destinations } |->
                 destinations[m.destination] * Count(undeployed, m.piece)]

validated(gs, color, game_move) == validate_move(gs, color, game_move) = "Ok"

\* The Vec targets built for one start field, as a bag of coordinates.
drag_targets(gs, start_coords) ==
    LET b == gs.board
        boundary == swarm_boundary(b)
        extra == IF piece(b[start_coords]) # None /\ piece(b[start_coords])[1].piece_type = "Beetle"
                 THEN neighbors(b, start_coords) ELSE {}
    IN  [c \in (DOMAIN boundary) \cup extra |->
            (IF c \in DOMAIN boundary THEN boundary[c] ELSE 0) + (IF c \in extra THEN 1 ELSE 0)]

possible_drag_moves(gs, color) ==
    LET starts == fields_owned_by(gs.board, color)
        kept == { m \in UNION { { DragMove(s, c) : c \in DOMAIN drag_targets(gs, s) } : s \in starts } :
                    validated(gs, color, m) }
    IN  [m \in kept |-> drag_targets(gs, m.start)[m.destination]]

possible_moves(gs, color) == possible_set_moves(gs, color) (+) possible_drag_moves(gs, color)

\* The state behind &self when possible_moves has returned: possible_drag_moves
\* validates its candidate moves one after the other.
self_after_possible_moves(gs, color) ==
    LET RECURSIVE after_targets(_, _, _)
        after_targets(state, start, todo) ==
            IF todo = {} THEN state
            ELSE LET c == CHOOSE c \in todo : TRUE
                 IN  CHOOSE after \in
                        { after_targets(next, start, rest) :
                            next \in {self_after_validate_move(state, color, DragMove(start, c))},
                            rest \in {todo \ {c}} } : TRUE
        RECURSIVE after_starts(_, _)
        after_starts(state, todo) ==
            IF todo = {} THEN state
            ELSE LET start == CHOOSE start \in todo : TRUE
                 IN  CHOOSE after \in
                        { after_starts(next, rest) :
                            next \in {after_targets(state, start, DOMAIN drag_targets(gs, start))},
                            rest \in {todo \ {start}} } : TRUE
    IN  after_starts(gs, fields_owned_by(gs.board, color))

(***************************************************************************)
(* The snapshot kept by the client: client.rs.  SCClient::new starts       *)
(* without a game state; every Memento replaces it by the state the server *)
(* sends.  The server's next state is the previous one after the move of   *)
(* the player whose turn it is: a piece set from the pool next to the      *)
(* swarm, or a drag that validate_move accepts.  The server names the      *)
(* player to move next (the same player again when the other cannot move). *)
(***************************************************************************)
PiecesOnBoard(b) ==
    LET RECURSIVE Sum(_)
        Sum(S) == IF S = {} THEN 0
                  ELSE LET c == CHOOSE c \in S : TRUE IN Len(b[c].piece_stack) + Sum(S \ {c})
    IN  Sum(DOMAIN b)

InitialPieces(color) == [i \in DOMAIN INITIAL_PIECE_TYPES |-> Piece(color, INITIAL_PIECE_TYPES[i])]

\* The first state of a game: no piece set, some fields obstructed.
InitialGameState(obstructed) ==
    [turn |-> 0,
     start_player_color |-> "Red",
     current_player_color |-> "Red",
     board |-> filling_radius(Radius, [c \in obstructed |-> [piece_stack |-> <<>>, is_obstructed |-> TRUE]]),
     undeployed_red_pieces |-> InitialPieces("Red"),
     undeployed_blue_pieces |-> InitialPieces("Blue")]

\* seq without its first occurrence of e
RemoveFirst(seq, e) ==
    LET i == CHOOSE i \in DOMAIN seq : seq[i] = e /\ \A j \in 1 .. (i - 1) : seq[j] # e
    IN  SubSeq(seq, 1, i - 1) \o SubSeq(seq, i + 1, Len(seq))

NextTurn(gs, next_color) ==
    [gs EXCEPT !.turn = @ + 1, !.current_player_color = next_color]

\* The state after the current player sets p on destination.
AfterSetMove(gs, p, destination) ==
    LET moved == [gs EXCEPT !.board[destination] = push(@, p)]
    IN  IF p.owner = "Red"
        THEN [moved EXCEPT !.undeployed_red_pieces = RemoveFirst(@, p)]
        ELSE [moved EXCEPT !.undeployed_blue_pieces = RemoveFirst(@, p)]

\* The state after the top piece of start is popped and pushed onto destination.
AfterDragMove(gs, start, destination) ==
    LET dragged_piece == piece(gs.board[start])[1]
    IN  [gs EXCEPT !.board = [[gs.board EXCEPT ![start] = pop(@)] EXCEPT ![destination] = push(@, dragged_piece)]]

Init == game_state = None /\ call = None

\* The first Memento of a game.
MementoInitial ==
    /\ game_state = None
    /\ UNCHANGED call
    /\ \E obstructed \in SUBSET (HexCoords(ObstructedRadius) \cap HexCoords(Radius)) :
         game_state' = Some(InitialGameState(obstructed))

\* A Memento after the current player has set a piece next to the swarm.
MementoSetMove ==
    /\ game_state # None
    /\ UNCHANGED call
    /\ LET gs == game_state[1]
           color == gs.current_player_color
       IN  /\ gs.turn < MaxTurn
           /\ PiecesOnBoard(gs.board) < MaxPieces
           /\ \E p \in Range(undeployed_pieces(gs, color)), destination \in empty_fields(gs.board),
                 next_color \in PlayerColor :
                /\ ~any_field_has_pieces(gs.board) \/ is_next_to_piece(gs.board, destination)
                /\ game_state' = Some(NextTurn(AfterSetMove(gs, p, destination), next_color))

\* A Memento after a drag move of the current player that validate_move accepts.
MementoDragMove ==
    /\ game_state # None
    /\ UNCHANGED call
    /\ LET gs == game_state[1]
           color == gs.current_player_color
       IN  /\ gs.turn < MaxTurn
           /\ \E start \in fields_owned_by(gs.board, color), destination \in DOMAIN gs.board,
                 next_color \in PlayerColor :
                /\ validate_move(gs, color, DragMove(start, destination)) = "Ok"
                /\ game_state' = Some(NextTurn(AfterDragMove(gs, start, destination), next_color))

Next == MementoInitial \/ MementoSetMove \/ MementoDragMove

Spec == Init /\ [][Next]_vars

(***************************************************************************)
(* The board functions called on their own, as the tests of the            *)
(* repository call them: one call, recorded with its arguments and result. *)
(***************************************************************************)
\* The subsets of S with at most k elements, each built once by adding cells in
\* increasing order.
RECURSIVE SubsetsOfSize(_, _)
SubsetsOfSize(S, k) ==
    IF k = 0 THEN {{}}
    ELSE UNION { { T \cup {c} : c \in { c \in S : \A t \in T : t[1] < c[1] \/ (t[1] = c[1] /\ t[2] < c[2]) } } :
                 T \in SubsetsOfSize(S, k - 1) }

SubsetsUpTo(S, k) == UNION { SubsetsOfSize(S, n) : n \in 0 .. k }

\* A board of radius SwarmRadius with one piece on each of cells.
SwarmBoard(cells, obstructed) ==
    filling_radius(SwarmRadius,
        [c \in cells \cup obstructed |->
            [piece_stack |-> IF c \in cells THEN <<Piece("Red", "Ant")>> ELSE <<>>,
             is_obstructed |-> c \in obstructed]])

\* Seed maps of filling_radius: fields at the centre, next to it and outside the
\* largest radius.
SeedCoords == { <<0, 0>>, <<1, 0>>, <<MaxRadius + 1, 0>> }

SeedFields ==
    { DefaultField,
      [piece_stack |-> <<>>, is_obstructed |-> TRUE],
      [piece_stack |-> <<Piece("Blue", "Bee")>>, is_obstructed |-> FALSE] }

SeedMaps == UNION { [S -> SeedFields] : S \in SUBSET SeedCoords }

InitCalls == game_state = None /\ call = None

CallIsSwarmConnected ==
    /\ call = None
    /\ UNCHANGED game_state
    /\ \E cells \in SubsetsUpTo(HexCoords(SwarmRadius), MaxSwarm), obstructed \in SUBSET { <<0, 0>>, <<1, -1>> } :
         LET b == SwarmBoard(cells, obstructed)
         IN  call' = Some([op |-> "is_swarm_connected", board |-> b, result |-> is_swarm_connected(b)])

CallFillingRadius ==
    /\ call = None
    /\ UNCHANGED game_state
    /\ \E radius \in 1 .. MaxRadius, fields \in SeedMaps :
         call' = Some([op |-> "filling_radius", radius |-> radius, fields |-> fields,
                       result |-> filling_radius(radius, fields)])

CallNeighbors ==
    /\ call = None
    /\ UNCHANGED game_state
    /\ \E radius \in 1 .. MaxRadius :
         \E coords \in HexCoords(radius + 1) :
            call' = Some([op |-> "neighbors", radius |-> radius, coords |-> coords,
                          result |-> neighbors(filling_radius(radius, <<>>), coords)])

CoordRange == (0 - MaxCoord) .. MaxCoord

\* test_bi_conversion, from the axial side: B::from(a), then A::from of that.
CallDoubledFromAxial ==
    /\ call = None
    /\ UNCHANGED game_state
    /\ \E a \in CoordRange \X CoordRange :
         call' = Some([op |-> "doubled_from_axial", axial |-> a, result |-> DoubledFromAxial(a),
                       back |-> AxialFromDoubled(DoubledFromAxial(a))])

\* test_bi_conversion, from the doubled side.
CallAxialFromDoubled ==
    /\ call = None
    /\ UNCHANGED game_state
    /\ \E d \in CoordRange \X CoordRange :
         call' = Some([op |-> "axial_from_doubled", doubled |-> d, result |-> AxialFromDoubled(d),
                       back |-> DoubledFromAxial(AxialFromDoubled(d))])

\* The grids of test_empty_ascii_hex_grid and test_filled_ascii_hex_grid are drawn
\* from the tokens of their cells: rows is the sequence of the cell rows, each the
\* sequence of its tokens, the first row being the indented one.
RECURSIVE join(_, _)
join(ls, separator) ==
    IF Len(ls) = 1 THEN ls[1] ELSE ls[1] \o <<separator>> \o join(Tail(ls), separator)

ArtLine == <<" ", "/", "\\", " ", " ", "/", "\\", " ">>

AsciiGrid(rows) ==
    LET pad(token) == token \o [k \in 1 .. (3 - Len(token)) |-> " "]
        CellLine(tokens, y) ==
            (IF y % 2 = 0 THEN <<" ", " ", " ">> ELSE <<" ">>)
                \o <<"|">> \o flatten([k \in 1 .. Len(tokens) |-> pad(tokens[k]) \o <<"|">>])
    IN
    join(<<ArtLine, ArtLine>>
            \o flatten([k \in 1 .. Len(rows) |-> <<CellLine(rows[k], k - 1), ArtLine, ArtLine>>]),
         "\n")

\* The grid of test_filled_ascii_hex_grid.
FilledGrid ==
    << <<<<>>, <<>>, <<>>>>,
       <<<<>>, <<"R", "B">>, <<"B", "A">>, <<"B", "A">>>>,
       <<<<>>, <<"R", "G">>, <<>>>>,
       <<<<>>, <<>>, <<>>, <<>>>>,
       <<<<>>, <<>>, <<>>>> >>

CallFromAsciiHexGrid ==
    /\ call = None
    /\ UNCHANGED game_state
    /\ LET \* Tokens written into cells: two pieces, an unknown colour, an unknown
            \* piece type, lower-case letters and a single letter.
            NonBlankTokens == { <<"R", "G">>, <<"B", "T">>, <<"X", "A">>, <<"R", "X">>, <<"r", "b">>, <<"R">> }
            GridCells(shape) == { c \in (1 .. Len(shape)) \X (1 .. 4) : c[2] <= shape[c[1]] }
            \* The seven-cell grid of test_empty_ascii_hex_grid with tokens in some cells.
            SmallGrids ==
                LET shape == <<2, 3, 2>>
                IN  { [r \in 1 .. Len(shape) |->
                         [i \in 1 .. shape[r] |-> IF <<r, i>> \in DOMAIN f THEN f[<<r, i>>] ELSE <<>>]] :
                        f \in UNION { [S -> NonBlankTokens] : S \in SubsetsUpTo(GridCells(shape), MaxTokens) } }
            \* The grid of test_filled_ascii_hex_grid with one cell rewritten.
            FilledGrids ==
                { [FilledGrid EXCEPT ![c[1]][c[2]] = token] :
                    c \in GridCells(<<3, 4, 3, 4, 3>>), token \in NonBlankTokens \cup {<<>>} }
        IN  \E rows \in SmallGrids \cup FilledGrids :
               call' = Some([op |-> "from_ascii_hex_grid", rows |-> rows,
                             result |-> from_ascii_hex_grid(AsciiGrid(rows))])

\* The <state> element of a memento as the server writes it, and the same
\* element with one thing wrong: corruption is the record [cause, target,
\* garbage], target naming the element and the attribute or child concerned.
NoCorruption == [cause |-> "none", target |-> <<"", "">>, garbage |-> ""]

StateNode(c) ==
    LET Garbles == { "unrecognized_literal", "malformed_number", "malformed_bool", "respelled" }
        attr(element, key, value) ==
            IF c.cause = "missing_attribute" /\ c.target = <<element, key>> THEN <<>>
            ELSE key :> (IF c.cause \in Garbles /\ c.target = <<element, key>> THEN c.garbage ELSE value)
        kept_childs(element, nodes) ==
            LET Stays(node) == ~(c.cause = "missing_child" /\ c.target = <<element, node.name>>)
            IN  SelectSeq(nodes, Stays)
        PieceNode(element, piece_owner, piece_type) ==
            [name |-> "piece",
             attributes |-> attr(element, "owner", piece_owner) @@ attr(element, "type", piece_type),
             childs |-> <<>>]
        PlayerNode(element, color) ==
            [name |-> element,
             attributes |-> attr(element, "color", color) @@ attr(element, "displayName", "Alice"),
             childs |-> <<>>]
        FieldNode(element, x, y, z, pieces) ==
            [name |-> "field",
             attributes |-> attr(element, "x", x) @@ attr(element, "y", y) @@ attr(element, "z", z)
                                @@ attr(element, "isObstructed", "false"),
             childs |-> pieces]
    IN
    [name |-> "state",
     attributes |-> attr("state", "turn", <<"3">>) @@ attr("state", "startPlayerColor", "RED")
                        @@ attr("state", "currentPlayerColor", "BLUE"),
     childs |-> kept_childs("state",
        << PlayerNode("red", "RED"),
           PlayerNode("blue", "BLUE"),
           [name |-> "board", attributes |-> <<>>,
            childs |-> << [name |-> "fields", attributes |-> <<>>,
                           childs |-> << FieldNode("field", <<"0">>, <<"-", "1">>, <<"1">>,
                                                   <<PieceNode("field_piece", "RED", "BEE")>>),
                                         FieldNode("empty_field", <<"1">>, <<"0">>, <<"-", "1">>, <<>>) >>] >>],
           [name |-> "undeployedRedPieces", attributes |-> <<>>,
            childs |-> <<PieceNode("red_piece", "RED", "ANT"), PieceNode("red_piece", "RED", "SPIDER")>>],
           [name |-> "undeployedBluePieces", attributes |-> <<>>,
            childs |-> <<PieceNode("blue_piece", "BLUE", "GRASSHOPPER")>>] >>)]

ColorAttributes ==
    { <<"state", "startPlayerColor">>, <<"state", "currentPlayerColor">>, <<"red", "color">>,
      <<"blue", "color">>, <<"field_piece", "owner">>, <<"red_piece", "owner">>, <<"blue_piece", "owner">> }

PieceTypeAttributes == { <<"field_piece", "type">>, <<"red_piece", "type">>, <<"blue_piece", "type">> }

BoolAttributes == { <<"field", "isObstructed">>, <<"empty_field", "isObstructed">> }

Corruptions ==
    LET NumberAttributes == { <<"state", "turn">>, <<"field", "x">>, <<"field", "y">>, <<"field", "z">> }
        RequiredAttributes ==
            (ColorAttributes \cup PieceTypeAttributes \cup NumberAttributes \cup BoolAttributes
                \cup { <<"red", "displayName">>, <<"blue", "displayName">> })
        RequiredChilds ==
            { <<"state", "red">>, <<"state", "blue">>, <<"state", "board">>,
              <<"state", "undeployedRedPieces">>, <<"state", "undeployedBluePieces">> }
        MalformedNumbers ==
            { <<>>, <<"x">>, <<"1", ".", "5">>, <<"9", "9", "9", "9", "9", "9", "9", "9", "9", "9", "9">> }
    IN
    { [cause |-> "missing_attribute", target |-> t, garbage |-> ""] : t \in RequiredAttributes }
    \cup { [cause |-> "missing_child", target |-> t, garbage |-> ""] : t \in RequiredChilds }
    \cup { [cause |-> "unrecognized_literal", target |-> t, garbage |-> g] :
             t \in ColorAttributes, g \in {"GREEN", "green", ""} }
    \cup { [cause |-> "unrecognized_literal", target |-> t, garbage |-> g] :
             t \in PieceTypeAttributes, g \in {"WASP", "Wasp", "RED"} }
    \cup { [cause |-> "malformed_number", target |-> t, garbage |-> g] :
             t \in NumberAttributes, g \in MalformedNumbers }
    \cup { [cause |-> "malformed_number", target |-> <<"state", "turn">>, garbage |-> <<"-", "1">>] }
    \cup { [cause |-> "malformed_bool", target |-> t, garbage |-> g] :
             t \in BoolAttributes, g \in {"maybe", "TRUE", ""} }

\* The element written otherwise and still well-formed.
Respellings ==
    { [cause |-> "respelled", target |-> t, garbage |-> g] : t \in ColorAttributes, g \in {"red", "Blue"} }
    \cup { [cause |-> "respelled", target |-> t, garbage |-> g] : t \in PieceTypeAttributes, g \in {"beetle", "Ant"} }
    \cup { [cause |-> "respelled", target |-> <<"state", "turn">>, garbage |-> g] :
             g \in { <<"0">>, <<"+", "7">>, <<"6", "0">> } }
    \cup { [cause |-> "respelled", target |-> t, garbage |-> "true"] : t \in BoolAttributes }

CallGameStateFromNode ==
    /\ call = None
    /\ UNCHANGED game_state
    /\ \E c \in {NoCorruption} \cup Respellings \cup Corruptions :
         \E node \in {StateNode(c)} :
            call' = Some([op |-> "game_state_from_node", corruption |-> c,
                          result |-> GameState_from_node(node)])

\* Snapshots validate_move and possible_moves are asked about: a game on the
\* board of radius SwarmRadius from its first state to a Beetle on a Bee.
QuerySnapshots ==
    LET RECURSIVE snapshot(_)
        placements ==
            << <<Piece("Red", "Bee"), <<0, 0>>>>, <<Piece("Blue", "Bee"), <<1, 0>>>>,
               <<Piece("Red", "Ant"), <<-1, 0>>>>, <<Piece("Blue", "Grasshopper"), <<2, 0>>>>,
               <<Piece("Red", "Beetle"), <<0, 1>>>>, <<Piece("Blue", "Spider"), <<2, -1>>>> >>
        snapshot(k) ==
            IF k = 0 THEN [InitialGameState({}) EXCEPT !.board = filling_radius(SwarmRadius, <<>>)]
            ELSE IF k <= Len(placements)
            THEN NextTurn(AfterSetMove(snapshot(k - 1), placements[k][1], placements[k][2]),
                          opponent(placements[k][1].owner))
            ELSE NextTurn(AfterDragMove(snapshot(k - 1), <<0, 1>>, <<1, 0>>), "Blue")
    IN  { snapshot(n) : n \in 0 .. 7 }

CallValidateMove ==
    /\ call = None
    /\ UNCHANGED game_state
    /\ \E gs \in QuerySnapshots, color \in PlayerColor,
          game_move \in { SetMove(Piece(c, t), d) : c \in PlayerColor, t \in PieceType, d \in HexCoords(SwarmRadius) }
                \cup { DragMove(f, d) : f \in HexCoords(SwarmRadius),
                                        d \in HexCoords(SwarmRadius) \cup {<<SwarmRadius, 0>>} } :
         call' = Some([op |-> "validate_move", self |-> gs, color |-> color, game_move |-> game_move,
                       result |-> validate_move(gs, color, game_move),
                       self_after |-> self_after_validate_move(gs, color, game_move)])

CallPossibleMoves ==
    /\ call = None
    /\ UNCHANGED game_state
    /\ \E gs \in QuerySnapshots, color \in PlayerColor :
         call' = Some([op |-> "possible_moves", self |-> gs, color |-> color,
                       result |-> possible_moves(gs, color),
                       self_after |-> self_after_possible_moves(gs, color)])

CallLineIter ==
    /\ call = None
    /\ UNCHANGED game_state
    /\ \E a \in CoordRange \X CoordRange, b \in CoordRange \X CoordRange :
         /\ a # b
         /\ forms_line_with(a, b)
         /\ call' = Some([op |-> "line_iter", lhs |-> a, rhs |-> b,
                          result |-> line_iter_items(line_iter(a, b), <<>>)])

\* The operators of CubeCoords applied to valid cube coordinates and a scalar.
CallCubeOperators ==
    /\ call = None
    /\ UNCHANGED game_state
    /\ \E a \in CoordRange \X CoordRange, b \in (-1 .. 1) \X (-1 .. 1), r \in {-2, -1, 1, 2, 3} :
         LET lhs == CubeFromAxial(a)
             rhs == CubeFromAxial(b)
         IN  call' = Some([op |-> "cube_operators", lhs |-> lhs, rhs |-> rhs, scalar |-> r,
                           add |-> CubeAdd(lhs, rhs), sub |-> CubeSub(lhs, rhs),
                           mul |-> CubeMul(lhs, r), div |-> CubeDiv(lhs, r),
                           add_assign |-> CubeAddAssign(lhs, rhs), sub_assign |-> CubeSubAssign(lhs, rhs),
                           mul_assign |-> CubeMulAssign(lhs, r)])

NextCalls == CallIsSwarmConnected \/ CallFillingRadius \/ CallNeighbors \/ CallDoubledFromAxial \/ CallAxialFromDoubled \/ CallFromAsciiHexGrid \/ CallGameStateFromNode \/ CallValidateMove \/ CallPossibleMoves \/ CallLineIter \/ CallCubeOperators

SpecCalls == InitCalls /\ [][NextCalls]_vars

(***************************************************************************)
(* The message loop of the client: SCClient::run_game in client.rs.  Each  *)
(* step reads one message and handles it; call records the message handled *)
(* last: what it was (op), the state a Memento carried, the arguments      *)
(* handed to the delegate and the moves written for it.  The writer is     *)
(* taken to accept what is written to it.                                  *)
(***************************************************************************)
\* Data::Memento keeping the state of the first Memento.
on_memento_first_kept(stored, state) == IF stored = None THEN Some(state) ELSE stored

\* Data::Memento: self.game_state = Some(state)
on_memento(stored, state) == Some(state)

\* SCClientDelegate::request_move returns a move of the delegate's choosing:
\* here one of possible_moves, or the Bee set on the centre of the board.
request_move(state, color) ==
    (DOMAIN possible_moves(state, color)) \cup { SetMove(Piece(color, "Bee"), <<0, 0>>) }

\* The loop has left by break.
closed == call # None /\ call[1].op = "close"

ReceiveMemento ==
    /\ ~closed
    /\ \E state \in QuerySnapshots :
         /\ game_state' = on_memento(game_state, state)
         /\ call' = Some([op |-> "Memento", state |-> Some(state), request |-> None, written |-> <<>>])

ReceiveMoveRequest ==
    /\ ~closed
    /\ UNCHANGED game_state
    /\ IF game_state # None
       THEN LET state == game_state[1]
                color == state.current_player_color
            IN  \E new_move \in request_move(state, color) :
                   call' = Some([op |-> "MoveRequest", state |-> None, request |-> Some([state |-> state, color |-> color]), written |-> <<new_move>>])
       ELSE call' = Some([op |-> "MoveRequest", state |-> None, request |-> None, written |-> <<>>])

\* Messages that are logged or handed to the delegate only: a welcome message,
\* a game result, an error, a room message that cannot be parsed, joined, left
\* and an unrecognized element.
ReceiveOther ==
    /\ ~closed
    /\ UNCHANGED game_state
    /\ \E op \in { "WelcomeMessage", "GameResult", "Error", "unparsable room", "joined", "left", "unrecognized" } :
         call' = Some([op |-> op, state |-> None, request |-> None, written |-> <<>>])

ReceiveClose ==
    /\ ~closed
    /\ UNCHANGED game_state
    /\ call' = Some([op |-> "close", state |-> None, request |-> None, written |-> <<>>])

NextClient == ReceiveMemento \/ ReceiveMoveRequest \/ ReceiveOther \/ ReceiveClose

SpecClient == Init /\ [][NextClient]_vars

(***************************************************************************)
(* Claims                                                                  *)
(***************************************************************************)
HasState == game_state # None

State == game_state[1]

\* What a caller may ask about: both colours, every piece, and every coordinate
\* of the board or one step outside it.
QueryCoords == HexCoords(Radius + 1)

QueryPieces == { Piece(o, t) : o \in PlayerColor, t \in PieceType }

IsErr(result) == result \notin {"Ok", "Overrun"}

abs(n) == IF n < 0 THEN -n ELSE n

HexDistance(a, b) == (abs(a[1] - b[1]) + abs(a[2] - b[2]) + abs((a[1] + a[2]) - (b[1] + b[2]))) \div 2

\* The graph of the swarm: the cells holding a piece, joined when hex-adjacent.
PieceCells(b) == { c \in DOMAIN b : Len(b[c].piece_stack) > 0 }

RECURSIVE GrowComponent(_, _)
GrowComponent(b, S) ==
    LET T == S \cup { c \in PieceCells(b) : \E d \in S : HexDistance(c, d) = 1 }
    IN  IF T = S THEN S ELSE GrowComponent(b, T)

SwarmIsOneComponent(b) ==
    PieceCells(b) = {} \/ GrowComponent(b, {CHOOSE c \in PieceCells(b) : TRUE}) = PieceCells(b)

BoardWithoutTop(b, start) ==
    [b EXCEPT ![start].piece_stack = IF @ = <<>> THEN @ ELSE SubSeq(@, 1, Len(@) - 1)]

TopPiece(b, c) == b[c].piece_stack[Len(b[c].piece_stack)]

\* C1: starting from a connected swarm, the swarm is still connected after every
\* DragMove that validate_move accepts has been applied (top piece of start
\* popped and pushed onto destination), so every snapshot reached by set moves
\* next to the swarm and accepted drag moves has a connected swarm.
C1_SwarmStaysConnected == HasState => is_swarm_connected(State.board)

\* C2: validate_move rejects every DragMove for which the board with the top
\* piece of start popped is not one connected swarm, whatever the piece type and
\* also when the rule of the piece type accepts the move.
C2_DisconnectingDragRejected ==
    HasState =>
        \A start \in DOMAIN State.board :
            ~SwarmIsOneComponent(BoardWithoutTop(State.board, start))
                => \A color \in PlayerColor, destination \in QueryCoords :
                       IsErr(validate_move(State, color, DragMove(start, destination)))

\* A drag of an own piece whose removal splits the swarm is refused for that
\* reason although the rule of its piece type accepts it.
C2_Witness ==
    /\ HasState
    /\ \E color \in PlayerColor, start \in PieceCells(State.board), destination \in DOMAIN State.board :
         /\ TopPiece(State.board, start).owner = color
         /\ ~SwarmIsOneComponent(BoardWithoutTop(State.board, start))
         /\ validate_piece_move(State, TopPiece(State.board, start), start, destination) = "Ok"
         /\ validate_move(State, color, DragMove(start, destination)) = "Drag move would disconnect the swarm"

\* C3: every move possible_moves(color) returns, SetMove or DragMove, is accepted
\* by validate_move(color, move) on the same GameState.
C3_EnumeratedMovesAccepted ==
    HasState =>
        \A color \in PlayerColor : \A m \in DOMAIN possible_moves(State, color) :
            validate_move(State, color, m) = "Ok"

\* C4: for every start and destination on the board whose DragMove validate_move
\* accepts, possible_moves(color) contains a DragMove with these coordinates.
C4_AcceptedDragsEnumerated ==
    HasState =>
        \A color \in PlayerColor, start \in DOMAIN State.board, destination \in DOMAIN State.board :
            validate_move(State, color, DragMove(start, destination)) = "Ok"
                => DragMove(start, destination) \in DOMAIN possible_moves(State, color)

\* The cells of the board next to c whose top piece belongs to color.
OwnedNeighbours(b, color, c) ==
    { n \in PieceCells(b) : HexDistance(n, c) = 1 /\ TopPiece(b, n).owner = color }

OwnsACell(b, color) == \E c \in PieceCells(b) : TopPiece(b, c).owner = color

BeeOnBoard(b, color) ==
    \E c \in DOMAIN b : \E i \in DOMAIN b[c].piece_stack :
        b[c].piece_stack[i] = [owner |-> color, piece_type |-> "Bee"]

Unobstructed(b, c) == c \in DOMAIN b /\ ~b[c].is_obstructed

FirstTurn(gs) ==
    /\ PieceCells(gs.board) = {}
    /\ Len(gs.undeployed_red_pieces) = Len(INITIAL_PIECE_TYPES)
    /\ Len(gs.undeployed_blue_pieces) = Len(INITIAL_PIECE_TYPES)

\* C5: on the very first turn (no piece on the board, both pools full)
\* possible_moves(color) holds no DragMove and exactly one SetMove for every pair
\* of an empty cell and one of the 5 piece types, no pair twice and nothing else.
C5_FirstTurnOnePerCellAndType ==
    (HasState /\ FirstTurn(State)) =>
        \A color \in PlayerColor :
            LET moves == possible_moves(State, color)
                pairs == { SetMove([owner |-> color, piece_type |-> t], c) :
                             t \in PieceType, c \in { d \in DOMAIN State.board : Unobstructed(State.board, d) } }
            IN  /\ \A m \in DOMAIN moves : m.kind # "DragMove"
                /\ DOMAIN moves = pairs
                /\ \A m \in pairs : moves[m] = 1

\* C6: in midgame (the mover owns a cell and the round-3 Bee deadline does not
\* apply) validate_move accepts a SetMove exactly when the destination is on the
\* board, unobstructed, the piece is in the mover's pool, the destination is next
\* to a cell of the mover and next to no cell of the opponent.
C6_MidgameSetMoveAcceptedIff ==
    HasState =>
        \A color \in PlayerColor, p \in QueryPieces, destination \in QueryCoords :
            (/\ OwnsACell(State.board, color)
             /\ ~(State.turn \div 2 = 3 /\ ~BeeOnBoard(State.board, color) /\ p.piece_type # "Bee"))
            => (validate_move(State, color, SetMove(p, destination)) = "Ok"
                <=> /\ Unobstructed(State.board, destination)
                    /\ \E i \in DOMAIN undeployed_pieces(State, color) : undeployed_pieces(State, color)[i] = p
                    /\ OwnedNeighbours(State.board, color, destination) # {}
                    /\ OwnedNeighbours(State.board, IF color = "Red" THEN "Blue" ELSE "Red", destination) = {})

\* C7: first placements.  With no piece on the board validate_move accepts every
\* SetMove to an existing unobstructed destination; with pieces on the board of
\* which the mover owns no cell it accepts a SetMove to an existing unobstructed
\* destination exactly when the destination is next to a cell of the opponent.
C7_FirstPlacements ==
    HasState =>
        \A color \in PlayerColor :
            (PieceCells(State.board) = {} \/ ~OwnsACell(State.board, color)) =>
                \A p \in QueryPieces, destination \in DOMAIN State.board :
                    Unobstructed(State.board, destination) =>
                        LET accepted == validate_move(State, color, SetMove(p, destination)) = "Ok"
                        IN  IF PieceCells(State.board) = {}
                            THEN accepted
                            ELSE accepted <=> OwnedNeighbours(State.board, IF color = "Red" THEN "Blue" ELSE "Red",
                                                              destination) # {}

\* The board holds pieces of which a colour owns none, and that colour's SetMove
\* is accepted next to the opponent and refused away from it.
C7_Witness ==
    /\ HasState
    /\ \E color \in PlayerColor, p \in QueryPieces, near \in DOMAIN State.board, far \in DOMAIN State.board :
         /\ PieceCells(State.board) # {} /\ ~OwnsACell(State.board, color)
         /\ Unobstructed(State.board, near) /\ Unobstructed(State.board, far)
         /\ validate_move(State, color, SetMove(p, near)) = "Ok"
         /\ validate_move(State, color, SetMove(p, far)) = "Piece has to be placed next to an opponent's piece"

\* C8: when the mover owns a cell, round() = turn / 2 is 3 and the mover's Bee is
\* not on the board, validate_move rejects every SetMove of a piece that is not a
\* Bee; on an existing unobstructed destination the reason is the Bee deadline.
C8_BeeDeadlineRejectsOthers ==
    (HasState /\ State.turn \in {6, 7}) =>
        \A color \in PlayerColor :
            (OwnsACell(State.board, color) /\ ~BeeOnBoard(State.board, color)) =>
                \A p \in QueryPieces, destination \in QueryCoords :
                    p.piece_type # "Bee" =>
                        LET result == validate_move(State, color, SetMove(p, destination))
                        IN  /\ IsErr(result)
                            /\ Unobstructed(State.board, destination)
                                 => result = "Bee has to be placed in the fourth round or earlier"

\* In round 3 a mover with a cell and without a Bee is refused a piece of its pool
\* next to its own cell because of the Bee deadline.
C8_Witness ==
    /\ HasState
    /\ State.turn \div 2 = 3
    /\ \E color \in PlayerColor, p \in QueryPieces, destination \in DOMAIN State.board :
         /\ OwnsACell(State.board, color) /\ ~BeeOnBoard(State.board, color)
         /\ p.piece_type # "Bee" /\ p.owner = color
         /\ OwnedNeighbours(State.board, color, destination) # {}
         /\ validate_move(State, color, SetMove(p, destination))
              = "Bee has to be placed in the fourth round or earlier"

SetMovesPlaceBee(gs, color) ==
    \A m \in DOMAIN possible_moves(gs, color) :
        m.kind = "SetMove" => m.piece = [owner |-> color, piece_type |-> "Bee"]

\* C9 as stated: whenever the mover's Bee is not on the board and turn >= 5, every
\* SetMove of possible_moves(color) places the mover's Bee.
C9_ForcedBeeFromTurn5 ==
    HasState =>
        \A color \in PlayerColor :
            (~BeeOnBoard(State.board, color) /\ State.turn >= 5) => SetMovesPlaceBee(State, color)

\* C9: whenever the mover's Bee is not on the board and more than 5 turns have
\* elapsed (turn > 5), every SetMove of possible_moves(color) places the mover's
\* Bee.
C9_ForcedBeeAfterTurn5 ==
    HasState =>
        \A color \in PlayerColor :
            (~BeeOnBoard(State.board, color) /\ State.turn > 5) => SetMovesPlaceBee(State, color)

\* After turn 5 a mover without a Bee, holding other pieces in its pool, is
\* offered SetMoves, all of them of the Bee.
C9_Witness ==
    /\ HasState
    /\ State.turn > 5
    /\ \E color \in PlayerColor :
         /\ ~BeeOnBoard(State.board, color)
         /\ \E i \in DOMAIN undeployed_pieces(State, color) :
                undeployed_pieces(State, color)[i].piece_type # "Bee"
         /\ \E m \in DOMAIN possible_moves(State, color) : m.kind = "SetMove"
         /\ SetMovesPlaceBee(State, color)

CubeOf(c) == <<c[1], c[2], 0 - (c[1] + c[2])>>

Collinear(a, b) == \E i \in 1 .. 3 : CubeOf(a)[i] = CubeOf(b)[i]

StrictlyBetween(a, c, b) ==
    /\ c # a /\ c # b
    /\ Collinear(a, b)
    /\ HexDistance(a, c) + HexDistance(c, b) = HexDistance(a, b)

EmptyCell(b, c) == c \in DOMAIN b /\ b[c].piece_stack = <<>> /\ ~b[c].is_obstructed

GrasshopperAt(b, c) == c \in PieceCells(b) /\ TopPiece(b, c).piece_type = "Grasshopper"

\* C10: validate_move rejects every DragMove of a Grasshopper whose start and
\* destination are adjacent, or not on one line in cube space, or have an empty
\* board cell strictly between them on the line.
C10_GrasshopperRejections ==
    HasState =>
        \A start \in DOMAIN State.board :
            GrasshopperAt(State.board, start) =>
                \A color \in PlayerColor, destination \in QueryCoords :
                    (\/ HexDistance(start, destination) = 1
                     \/ ~Collinear(start, destination)
                     \/ \E c \in DOMAIN State.board :
                            StrictlyBetween(start, c, destination) /\ EmptyCell(State.board, c))
                    => IsErr(validate_move(State, color, DragMove(start, destination)))

\* A Grasshopper of the mover that may leave the swarm is refused a neighbour, a
\* cell off its lines and a cell behind an empty cell, each for its own reason.
C10_Witness ==
    /\ HasState
    /\ \E color \in PlayerColor, start \in DOMAIN State.board :
         /\ GrasshopperAt(State.board, start)
         /\ \E d \in DOMAIN State.board :
              /\ HexDistance(start, d) = 1
              /\ validate_move(State, color, DragMove(start, d)) = "Grasshopper must not move to a neighbor"
         /\ \E d \in DOMAIN State.board :
              /\ ~Collinear(start, d)
              /\ validate_move(State, color, DragMove(start, d))
                   = "Grasshopper can only move along straight lines"
         /\ \E d \in DOMAIN State.board, c \in DOMAIN State.board :
              /\ StrictlyBetween(start, c, d) /\ EmptyCell(State.board, c)
              /\ validate_move(State, color, DragMove(start, d))
                   = "Grasshopper cannot move over empty fields"

\* The preconditions every DragMove shares, read on the board itself: the
\* mover's Bee is placed, both cells exist, the top piece of start is the mover's,
\* the cells differ, the destination is free of pieces and obstruction unless a
\* Beetle climbs a piece that is not a Beetle, and the swarm stays in one
\* component when the piece is lifted.
PassesSharedPreconditions(gs, color, start, destination) ==
    /\ BeeOnBoard(gs.board, color)
    /\ start \in PieceCells(gs.board)
    /\ destination \in DOMAIN gs.board
    /\ TopPiece(gs.board, start).owner = color
    /\ start # destination
    /\ ~gs.board[destination].is_obstructed
    /\ \/ destination \notin PieceCells(gs.board)
       \/ /\ TopPiece(gs.board, start).piece_type = "Beetle"
          /\ TopPiece(gs.board, destination).piece_type # "Beetle"
    /\ SwarmIsOneComponent(BoardWithoutTop(gs.board, start))

DragsOf(gs, piece_type) ==
    { d \in [color : PlayerColor, start : PieceCells(gs.board), destination : DOMAIN gs.board] :
        /\ TopPiece(gs.board, d.start).piece_type = piece_type
        /\ PassesSharedPreconditions(gs, d.color, d.start, d.destination) }

Accepts(gs, d) == validate_move(gs, d.color, DragMove(d.start, d.destination)) = "Ok"

\* C11: validate_move accepts every Grasshopper DragMove that passes the shared
\* preconditions when start and destination are on one line in cube space, are
\* not adjacent, and every cell strictly between them holds a piece, wherever on
\* the board the start is.
C11_GrasshopperJumpAccepted ==
    HasState =>
        \A d \in DragsOf(State, "Grasshopper") :
            (/\ Collinear(d.start, d.destination)
             /\ HexDistance(d.start, d.destination) > 1
             /\ \A c \in DOMAIN State.board :
                    StrictlyBetween(d.start, c, d.destination) => c \in PieceCells(State.board))
            => Accepts(State, d)

\* The existing cells of the board next to both a and c.
SharedCells(b, a, c) == { n \in DOMAIN b : HexDistance(n, a) = 1 /\ HexDistance(n, c) = 1 }

SlideFeasible(b, a, c) ==
    /\ \E n \in SharedCells(b, a, c) : n \in PieceCells(b)
    /\ \/ Cardinality(SharedCells(b, a, c)) = 1
       \/ \E n \in SharedCells(b, a, c) : EmptyCell(b, n)

\* C12: a Bee DragMove that passes the shared preconditions is accepted exactly
\* when the destination is next to the start and the slide is feasible: the cells
\* next to both hold at least one piece, and there is exactly one such cell or one
\* of them is empty.
C12_BeeAcceptedIffSlide ==
    HasState =>
        \A d \in DragsOf(State, "Bee") :
            Accepts(State, d)
                <=> (HexDistance(d.start, d.destination) = 1
                     /\ SlideFeasible(State.board, d.start, d.destination))

\* C13: a Beetle DragMove that passes the shared preconditions is accepted
\* exactly when the destination is next to the start and a cell next to both
\* holds a piece or the destination itself holds a piece.
C13_BeetleAcceptedIffAlongSwarm ==
    HasState =>
        \A d \in DragsOf(State, "Beetle") :
            Accepts(State, d)
                <=> (/\ HexDistance(d.start, d.destination) = 1
                     /\ \/ \E n \in SharedCells(State.board, d.start, d.destination) : n \in PieceCells(State.board)
                        \/ d.destination \in PieceCells(State.board))

\* One accessible step of a piece that has left start: to is an existing empty
\* neighbour of from and the slide from from to to is feasible on the board
\* without the piece (the start cell is the exception).
AccessibleStep(b, start, from, to) ==
    /\ to \in DOMAIN b
    /\ HexDistance(from, to) = 1
    /\ EmptyCell(b, to)
    /\ SlideFeasible(BoardWithoutTop(b, start), from, to)

\* C14: a Spider DragMove that passes the shared preconditions is accepted
\* exactly when there are cells c1, c2 with start, c1, c2, destination pairwise
\* distinct and start->c1, c1->c2, c2->destination accessible steps.
C14_SpiderAcceptedIffThreeSteps ==
    HasState =>
        \A d \in DragsOf(State, "Spider") :
            Accepts(State, d)
                <=> \E c1 \in DOMAIN State.board, c2 \in DOMAIN State.board :
                        /\ Cardinality({d.start, c1, c2, d.destination}) = 4
                        /\ AccessibleStep(State.board, d.start, d.start, c1)
                        /\ AccessibleStep(State.board, d.start, c1, c2)
                        /\ AccessibleStep(State.board, d.start, c2, d.destination)

\* The cells reachable from the cells of S by accessible steps.
RECURSIVE StepClosure(_, _, _)
StepClosure(b, start, S) ==
    LET T == S \cup { c \in DOMAIN b : \E f \in S : AccessibleStep(b, start, f, c) }
    IN  IF T = S THEN S ELSE StepClosure(b, start, T)

ReachableBySteps(b, start) ==
    StepClosure(b, start, { c \in DOMAIN b : AccessibleStep(b, start, start, c) })

\* C15: an Ant DragMove that passes the shared preconditions is accepted exactly
\* when the destination is reachable from the start by one or more accessible
\* steps (the transitive closure of the accessible-step relation from start).
C15_AntAcceptedIffReachable ==
    HasState =>
        \A d \in DragsOf(State, "Ant") :
            Accepts(State, d) <=> d.destination \in ReachableBySteps(State.board, d.start)

\* C16: whenever validate_move accepts a move whose destination holds a piece,
\* the move is a DragMove and the top piece at its start is a Beetle: every
\* SetMove and every DragMove of another piece onto a piece is rejected.
C16_OnlyBeetlesStack ==
    HasState =>
        \A color \in PlayerColor, destination \in PieceCells(State.board) :
            /\ \A p \in QueryPieces : validate_move(State, color, SetMove(p, destination)) # "Ok"
            /\ \A start \in DOMAIN State.board :
                   validate_move(State, color, DragMove(start, destination)) = "Ok"
                       => (start \in PieceCells(State.board)
                           /\ TopPiece(State.board, start).piece_type = "Beetle")

\* The coordinates a drag is asked about: every cell of the board and some
\* coordinates outside it, next to the board and far from it.
DragQueryCoords ==
    HexCoords(Radius) \cup { <<Radius, 0>>, <<0 - Radius, 1>>, <<1, 0 - Radius>>, <<Radius, Radius>> }

DragRejected(gs, color, start, destination) ==
    IsErr(validate_move(gs, color, DragMove(start, destination)))

\* C17: validate_move rejects a DragMove whenever a shared precondition fails:
\* the mover's Bee is not on the board, the start or the destination is not a
\* coordinate of the board, the start holds no piece, the top piece at start is
\* the opponent's, or start equals destination.
C17_FailedPreconditionRejected ==
    HasState =>
        \A color \in PlayerColor :
            IF ~BeeOnBoard(State.board, color)
            THEN \A start \in DragQueryCoords, destination \in DragQueryCoords :
                     DragRejected(State, color, start, destination)
            ELSE \A start \in DragQueryCoords :
                     IF \/ start \notin PieceCells(State.board)
                        \/ TopPiece(State.board, start).owner # color
                     THEN \A destination \in DragQueryCoords : DragRejected(State, color, start, destination)
                     ELSE \A destination \in (DragQueryCoords \ DOMAIN State.board) \cup {start} :
                              DragRejected(State, color, start, destination)

DragResults(gs, color) ==
    { validate_move(gs, color, DragMove(start, destination)) :
        start \in DragQueryCoords, destination \in DragQueryCoords }

\* One colour without its Bee is refused a drag for that reason, and the other,
\* with its Bee placed, is refused for each of the other failed preconditions.
C17_Witness ==
    /\ HasState
    /\ \E color \in PlayerColor :
         /\ BeeOnBoard(State.board, color)
         /\ { "Move start is out of bounds", "Move destination is out of bounds", "No piece to move",
              "Cannot move opponent's piece", "Cannot move when start == destination" }
                \subseteq DragResults(State, color)
         /\ \E other \in PlayerColor \ {color} :
              /\ OwnsACell(State.board, other)
              /\ DragResults(State, other) = {"Bee has to be placed before committing a drag move"}

IsCall(op) == call # None /\ call[1].op = op

\* C18: is_swarm_connected returns true exactly when the cells holding a piece,
\* joined when hex-adjacent, form a connected graph, whichever cell the traversal
\* starts from; a board without pieces is
\* reported connected and two piece-holding cells without a chain of
\* piece-holding cells between them are reported not connected.
C18_SwarmConnectedIffOneComponent ==
    IsCall("is_swarm_connected") =>
        /\ call[1].result = SwarmIsOneComponent(call[1].board)
        /\ \A start \in PieceCells(call[1].board) :
               (dfs_swarm(call[1].board, start, PieceCells(call[1].board)) = {})
                   = SwarmIsOneComponent(call[1].board)
        /\ PieceCells(call[1].board) = {} => call[1].result = TRUE
        /\ (\E c \in PieceCells(call[1].board), d \in PieceCells(call[1].board) :
                d \notin GrowComponent(call[1].board, {c})) => call[1].result = FALSE

\* A chain of pieces and a piece apart from it are reported not connected.
C18_Witness ==
    /\ IsCall("is_swarm_connected")
    /\ call[1].result = FALSE
    /\ \E c \in PieceCells(call[1].board) :
         /\ Cardinality(GrowComponent(call[1].board, {c})) = MaxSwarm - 1
         /\ Cardinality(PieceCells(call[1].board)) = MaxSwarm

\* The hexagon of a radius: the cells whose cube form has every coordinate within
\* radius - 1 of the origin.
Hexagon(radius) ==
    { c \in ((0 - radius) .. radius) \X ((0 - radius) .. radius) :
        abs(c[1]) <= radius - 1 /\ abs(c[2]) <= radius - 1 /\ abs(0 - (c[1] + c[2])) <= radius - 1 }

RECURSIVE CellCount(_)
CellCount(radius) == IF radius = 1 THEN 1 ELSE CellCount(radius - 1) + 6 * (radius - 1)

\* C19: filling_radius(R, empty map) yields exactly the hexagon of the cells with
\* max(|x|,|y|,|z|) <= R-1, each an empty unobstructed field, f(R) cells with
\* f(1) = 1, f(R) = f(R-1) + 6(R-1) (91 for the radius 6 of the game); with a
\* seed map every seed entry is in the result as it was given.
C19_FillingRadiusHexagon ==
    IsCall("filling_radius") =>
        LET radius == call[1].radius
            fields == call[1].fields
            board  == call[1].result
        IN  /\ DOMAIN fields = {} =>
                 /\ DOMAIN board = Hexagon(radius)
                 /\ \A c \in DOMAIN board : board[c] = [piece_stack |-> <<>>, is_obstructed |-> FALSE]
                 /\ Cardinality(DOMAIN board) = CellCount(radius)
            /\ \A c \in DOMAIN fields : c \in DOMAIN board /\ board[c] = fields[c]
            /\ Cardinality(DOMAIN filling_radius(BOARD_RADIUS, <<>>)) = FIELD_COUNT

\* filling_radius(2, empty map) is the origin and its six neighbours.
C19_Witness ==
    /\ IsCall("filling_radius")
    /\ call[1].radius = 2
    /\ DOMAIN call[1].fields = {}
    /\ DOMAIN call[1].result =
         { <<0, 0>>, <<1, 0>>, <<-1, 0>>, <<0, 1>>, <<0, -1>>, <<1, -1>>, <<-1, 1>> }

\* C20: neighbors(c) returns only cells of the board: on a board built by
\* filling_radius(R, empty map) every neighbour n returned has |n.x| < R,
\* |n.y| < R and |n.z| < R in cube form, and every existing neighbour is returned.
C20_NeighborsOnBoard ==
    IsCall("neighbors") =>
        LET radius == call[1].radius
        IN  /\ \A n \in call[1].result :
                 /\ n \in Hexagon(radius)
                 /\ abs(n[1]) < radius /\ abs(n[2]) < radius /\ abs(0 - (n[1] + n[2])) < radius
            /\ call[1].result = { n \in Hexagon(radius) : HexDistance(n, call[1].coords) = 1 }

\* A cell on the rim of the board has some of its six neighbours returned and
\* the others, off the board, dropped.
C20_Witness ==
    /\ IsCall("neighbors")
    /\ call[1].radius > 1
    /\ call[1].coords \in Hexagon(call[1].radius)
    /\ Cardinality(call[1].result) \in {3, 4}

\* C21: Axial and Doubled coordinates round-trip losslessly:
\* Axial::from(Doubled::from(a)) = a for every axial a, and
\* Doubled::from(Axial::from(d)) = d for every doubled d with x+y even, negative
\* coordinates included.
C21_AxialDoubledRoundTrip ==
    /\ IsCall("doubled_from_axial") => call[1].back = call[1].axial
    /\ (IsCall("axial_from_doubled") /\ (call[1].doubled[1] + call[1].doubled[2]) % 2 = 0)
          => call[1].back = call[1].doubled

\* The doubled (-3, 1) of util_test.rs, both coordinates odd and one negative,
\* is converted to the axial (-2, 1) and back.
C21_Witness ==
    /\ IsCall("axial_from_doubled")
    /\ call[1].doubled = <<-3, 1>>
    /\ call[1].result = <<-2, 1>>
    /\ call[1].back = <<-3, 1>>

\* The piece a two-letter token names, if it names one.
TokenColors == [R |-> "Red", B |-> "Blue"]

TokenPieceTypes == [A |-> "Ant", B |-> "Bee", T |-> "Beetle", G |-> "Grasshopper", S |-> "Spider"]

ValidToken(token) ==
    Len(token) = 2 /\ token[1] \in DOMAIN TokenColors /\ token[2] \in DOMAIN TokenPieceTypes

ExpectedField(token) ==
    IF ValidToken(token)
    THEN [piece_stack |-> <<[owner |-> TokenColors[token[1]], piece_type |-> TokenPieceTypes[token[2]]]>>,
          is_obstructed |-> FALSE]
    ELSE [piece_stack |-> <<>>, is_obstructed |-> FALSE]

\* The doubled position of column i of cell row r, both counted from 0.
GridDoubled(r, i) == <<2 * i + ((r + 1) % 2), r>>

\* The axial coordinates of column i of cell row r of a grid.
GridAxial(rows, r, i) ==
    LET cx == (CHOOSE m \in 0 .. 8 :
                 /\ \E q \in 1 .. Len(rows) : \E k \in 1 .. Len(rows[q]) : GridDoubled(q - 1, k - 1)[1] = m
                 /\ \A q \in 1 .. Len(rows) : \A k \in 1 .. Len(rows[q]) : GridDoubled(q - 1, k - 1)[1] <= m) \div 2
        cy == (Len(rows) - 1) \div 2
    IN  AxialFromDoubled(<<GridDoubled(r, i)[1] - cx, r - cy>>)

\* C22: for a grid in the documented format (rows indented alternately, a
\* perfectly centred field), from_ascii_hex_grid places the token of cell row r,
\* column i (both from 0) at Axial::from(Doubled(2i + ((r+1) mod 2), r) - center),
\* center being (max doubled x, max doubled y) / 2; a valid two-letter token gives
\* a field holding exactly that piece, an empty or malformed token an empty field.
\* The token-free grid yields 7 cells without a piece, and the documented 17-cell
\* grid exactly Red Bee at (0,1), Red Grasshopper at (0,0), Blue Ant at (1,0) and
\* Blue Ant at (2,-1), all other cells empty.
C22_AsciiGridCells ==
    IsCall("from_ascii_hex_grid") =>
        LET rows == call[1].rows
            board == call[1].result
            cells == { c \in (0 .. (Len(rows) - 1)) \X (0 .. 3) : c[2] < Len(rows[c[1] + 1]) }
        IN  /\ DOMAIN board = { GridAxial(rows, c[1], c[2]) : c \in cells }
            /\ Cardinality(DOMAIN board) = Cardinality(cells)
            /\ \A c \in cells :
                 board[GridAxial(rows, c[1], c[2])] = ExpectedField(rows[c[1] + 1][c[2] + 1])
            /\ (Len(rows) = 3 /\ \A c \in cells : rows[c[1] + 1][c[2] + 1] = <<>>) =>
                 /\ Cardinality(DOMAIN board) = 7
                 /\ \A c \in DOMAIN board : board[c].piece_stack = <<>>
            /\ rows = FilledGrid =>
                 /\ Cardinality(DOMAIN board) = 17
                 /\ { c \in DOMAIN board : board[c].piece_stack # <<>> }
                       = { <<0, 1>>, <<0, 0>>, <<1, 0>>, <<2, -1>> }
                 /\ board[<<0, 1>>].piece_stack = <<[owner |-> "Red", piece_type |-> "Bee"]>>
                 /\ board[<<0, 0>>].piece_stack = <<[owner |-> "Red", piece_type |-> "Grasshopper"]>>
                 /\ board[<<1, 0>>].piece_stack = <<[owner |-> "Blue", piece_type |-> "Ant"]>>
                 /\ board[<<2, -1>>].piece_stack = <<[owner |-> "Blue", piece_type |-> "Ant"]>>

\* The documented grid with the lower-case token rb written into its first cell
\* is parsed: 17 cells, the four pieces, and an empty field for the token rb.
C22_Witness ==
    /\ IsCall("from_ascii_hex_grid")
    /\ call[1].rows = [FilledGrid EXCEPT ![1][1] = <<"r", "b">>]
    /\ Cardinality(DOMAIN call[1].result) = 17
    /\ call[1].result[<<0, 1>>].piece_stack = <<[owner |-> "Red", piece_type |-> "Bee"]>>
    /\ call[1].result[<<0, 2>>].piece_stack = <<>>

FailureCauses == { "missing_attribute", "missing_child", "unrecognized_literal", "malformed_number", "malformed_bool" }

\* The three causes the error is to tell apart, a missing child being a missing
\* field like a missing attribute.
CauseKind(cause) == IF cause = "missing_child" THEN "missing_attribute" ELSE cause

C24_QueriesLeaveStateUnchanged ==
    /\ IsCall("validate_move") =>
         /\ call[1].self_after = call[1].self
         /\ (call[1].game_move.kind = "DragMove"
                /\ reaches_swarm_check(call[1].self, call[1].color, call[1].game_move.start,
                                       call[1].game_move.destination)) =>
              LET boards == swarm_check_boards(call[1].self.board, call[1].game_move.start)
              IN  /\ boards.self_board = call[1].self.board
                  /\ Len(boards.without_piece[call[1].game_move.start].piece_stack)
                        = Len(call[1].self.board[call[1].game_move.start].piece_stack) - 1
    /\ IsCall("possible_moves") => call[1].self_after = call[1].self

\* A drag that passes the swarm check is validated and its start still holds
\* the piece afterwards.
C24_Witness ==
    /\ IsCall("validate_move")
    /\ call[1].game_move.kind = "DragMove"
    /\ reaches_swarm_check(call[1].self, call[1].color, call[1].game_move.start, call[1].game_move.destination)
    /\ call[1].result # "Drag move would disconnect the swarm"
    /\ call[1].self_after.board[call[1].game_move.start].piece_stack # <<>>

\* The cells strictly between a and b on their line, from a towards b, in cube form.
CellsBetween(a, b) ==
    LET n == HexDistance(a, b)
        dx == (b[1] - a[1]) \div n
        dy == (b[2] - a[2]) \div n
    IN  [k \in 1 .. (n - 1) |-> <<a[1] + k * dx, a[2] + k * dy, 0 - (a[1] + k * dx + a[2] + k * dy)>>]

\* C25: for any two distinct cells a and b that form a line, a.line_iter(b)
\* yields exactly the cells strictly between a and b, in order from a towards b,
\* each a valid cube coordinate (x+y+z = 0), yields neither a nor b, and then
\* ends; for adjacent a and b it yields nothing.
C25_LineIterYieldsCellsBetween ==
    IsCall("line_iter") =>
        /\ call[1].result.ended
        /\ call[1].result.items = CellsBetween(call[1].lhs, call[1].rhs)
        /\ \A k \in 1 .. Len(call[1].result.items) :
             call[1].result.items[k][1] + call[1].result.items[k][2] + call[1].result.items[k][3] = 0
        /\ HexDistance(call[1].lhs, call[1].rhs) = 1 => call[1].result.items = <<>>

CubeSum(c) == c[1] + c[2] + c[3]

\* C26: the arithmetic operators on CubeCoords (+, -, scalar * and /, +=, -=,
\* *=) act componentwise on x, y and z and agree with each other (a + b equals
\* a after a += b; a * k equals a after a *= k), so +, - and scalar * applied to
\* valid cube coordinates give coordinates with x+y+z = 0.
C26_CubeOperatorsComponentwise ==
    IsCall("cube_operators") =>
        LET a == call[1].lhs
            b == call[1].rhs
            k == call[1].scalar
        IN  /\ call[1].add = <<a[1] + b[1], a[2] + b[2], a[3] + b[3]>>
            /\ call[1].sub = <<a[1] - b[1], a[2] - b[2], a[3] - b[3]>>
            /\ call[1].mul = <<a[1] * k, a[2] * k, a[3] * k>>
            /\ \A i \in 1 .. 3 :
                 /\ abs(call[1].div[i] * k) <= abs(a[i])
                 /\ abs(a[i] - call[1].div[i] * k) < abs(k)
            /\ call[1].add_assign = call[1].add
            /\ call[1].sub_assign = call[1].sub
            /\ call[1].mul_assign = call[1].mul
            /\ CubeSum(call[1].add) = 0 /\ CubeSum(call[1].sub) = 0 /\ CubeSum(call[1].mul) = 0

\* C27: in Ant and Spider path search the moving piece's own start cell is
\* treated as vacated: for every pair of adjacent cells a, b,
\* can_move_between_except(Some(start), a, b) on the current board equals slide
\* feasibility of a, b on the board with the moving piece removed from start, so
\* a start cell holding only the moving piece never counts as an occupied
\* flanking cell.
C27_ExceptionVacatesStart ==
    HasState =>
        \A start \in PieceCells(State.board) :
            \A a \in DOMAIN State.board, c \in DOMAIN State.board :
                HexDistance(a, c) = 1 =>
                    /\ can_move_between_except(State.board, Some(start), a, c)
                          = SlideFeasible(BoardWithoutTop(State.board, start), a, c)
                    /\ (Len(State.board[start].piece_stack) = 1 /\ start \in SharedCells(State.board, a, c)) =>
                          (can_move_between_except(State.board, Some(start), a, c)
                              => \E n \in SharedCells(State.board, a, c) \ {start} : n \in PieceCells(State.board))

\* The cells a piece of a colour may be set on: empty, next to a cell whose top
\* piece is of the colour, next to no cell whose top piece is the opponent's.
SetMoveCells(b, color) ==
    { c \in DOMAIN b :
        /\ EmptyCell(b, c)
        /\ \E n \in PieceCells(b) : HexDistance(n, c) = 1 /\ TopPiece(b, n).owner = color
        /\ \A n \in PieceCells(b) : HexDistance(n, c) = 1 => TopPiece(b, n).owner = color }

\* C28: possible_set_move_destinations(color) returns exactly the set of board
\* cells that are empty, adjacent to at least one cell owned (top piece) by
\* color, and adjacent to no cell owned by the opponent, each such cell exactly
\* once.
C28_SetMoveDestinations ==
    HasState =>
        \A color \in PlayerColor :
            /\ possible_set_move_destinations_items(State.board, color)
                  = [c \in SetMoveCells(State.board, color) |-> 1]
            /\ possible_set_move_destinations(State.board, color) = SetMoveCells(State.board, color)

\* A colour owns two cells next to one empty cell, which is returned once, and
\* the other colour has an empty cell next to both colours, which is left out.
C28_Witness ==
    /\ HasState
    /\ \E color \in PlayerColor :
         /\ \E c \in SetMoveCells(State.board, color) :
              Cardinality({ n \in PieceCells(State.board) :
                              HexDistance(n, c) = 1 /\ TopPiece(State.board, n).owner = color }) = 2
         /\ \E c \in DOMAIN State.board :
              /\ EmptyCell(State.board, c)
              /\ \E n \in PieceCells(State.board) : HexDistance(n, c) = 1 /\ TopPiece(State.board, n).owner # color
              /\ \E n \in PieceCells(State.board) : HexDistance(n, c) = 1 /\ TopPiece(State.board, n).owner = color
              /\ c \notin DOMAIN possible_set_move_destinations_items(State.board, opponent(color))
              /\ c \notin DOMAIN possible_set_move_destinations_items(State.board, color)

\* C29: validate_move and possible_moves terminate with a result for every
\* colour and every move on every finite board: the grasshopper line walk, the
\* swarm depth-first search and the Ant and Spider breadth-first searches each
\* finish after finitely many steps, also when the move is legal and when the
\* destination is unreachable.
C29_ValidationTerminates ==
    HasState =>
        \A color \in PlayerColor :
            /\ \A start \in PieceCells(State.board), destination \in DOMAIN State.board :
                 validate_move(State, color, DragMove(start, destination)) # "Overrun"
            /\ \A p \in QueryPieces, destination \in QueryCoords :
                 validate_move(State, color, SetMove(p, destination)) # "Overrun"
            /\ \A start \in fields_owned_by(State.board, color) :
                 \A destination \in DOMAIN drag_targets(State, start) :
                     validate_move(State, color, DragMove(start, destination)) # "Overrun"

Handled(c, op) == c # None /\ c[1].op = op

\* C30: in the client message loop, for any sequence of incoming messages: each
\* Memento replaces the stored game state wholesale; a move is written out only
\* in response to a MoveRequest that arrives after at least one Memento, exactly
\* one move per such request, computed by the delegate from the most recently
\* received Memento's state and its current_player_color; a MoveRequest arriving
\* before any Memento writes nothing; the loop ends when a close message is
\* received (no message is handled after it).
C30_ClientLoop ==
    [][ /\ ~Handled(call, "close")
        /\ Handled(call', "Memento") => game_state' = call'[1].state
        /\ ~Handled(call', "Memento") => game_state' = game_state
        /\ call'[1].written # <<>> => Handled(call', "MoveRequest") /\ game_state # None
        /\ (Handled(call', "MoveRequest") /\ game_state # None) =>
              /\ Len(call'[1].written) = 1
              /\ call'[1].request = Some([state |-> game_state[1], color |-> game_state[1].current_player_color])
              /\ call'[1].written[1] \in request_move(game_state[1], game_state[1].current_player_color)
        /\ (Handled(call', "MoveRequest") /\ game_state = None) => call'[1].written = <<>>
      ]_vars

\* A MoveRequest after the Memento of the fifth turn is answered with one move,
\* computed for the player that state names.
C30_Witness ==
    /\ IsCall("MoveRequest")
    /\ game_state # None
    /\ game_state[1].turn = 5
    /\ Len(call[1].written) = 1
    /\ call[1].request[1].color = game_state[1].current_player_color

====
